---- MODULE Spec2Model ----
(***************************************************************************)
(* A model of ComicDB's scan session (gui/comics_panel.py, driven by       *)
(* struttura/database.py) and of the metadata extractor                    *)
(* (struttura/comic_scanner.py).                                           *)
(*                                                                         *)
(* Spec        : the scan session.  The UI thread runs _start_scan and     *)
(*               _stop_scan; every start launches one worker thread that   *)
(*               runs _scan_directory.  The worker's loop is cut into the  *)
(*               steps between which the UI thread can run.                *)
(* ExtractSpec : one extraction of one file, entered through scan_file or  *)
(*               through extract_metadata, for every file name, content    *)
(*               and archive listing of the bounds.  Names are sequences   *)
(*               of character codes, so that lower(), splitext(),          *)
(*               basename() and sort() are computed as Python computes     *)
(*               them.                                                     *)
(* MetadataSpec: the same extraction over file names, sidecars and PDF     *)
(*               document infos, on a host with every library.             *)
(* BatchSpec   : several extractions in a row by one scanner.              *)
(* LiveSpec    : the scan session with a worker that keeps running.        *)
(* ThreadsSpec : the scan session with the statements of                   *)
(*               add_comic_from_file taken one by one on the connections   *)
(*               of ComicDatabase, the UI thread's queries, and cleanup.   *)
(***************************************************************************)
EXTENDS Integers, Sequences, FiniteSets, TLC

\* Bounds of the model.
MaxFiles == 2
MaxSessions == 2
MaxEntries == 3
MaxTags == 2
MaxTokens == 3
MaxCalls == 3

\* The comic files of the scanned tree.
Files == 1..MaxFiles

VARIABLES
    start_btn,      \* state of the start button: "normal" | "disabled"
    stop_btn,       \* state of the stop button
    stop_scan,      \* ComicsPanel.stop_scan, the cooperative cancellation flag
    progress_var,   \* the progress label's text
    confirm,        \* the askyesno dialog of _stop_scan is open
    db,             \* ComicsPanel.db is set (not None)
    comics,         \* file paths of the committed rows of table comics
    nsessions,      \* number of workers started so far
    pc,             \* where the worker stands in _scan_directory
    files,          \* the list find_comic_files returned
    idx,            \* the loop variable i (1-based)
    imported,       \* the local counter imported
    handed,         \* the files passed to add_comic_from_file, in order
    results,        \* what became of each file the loop body ran for
    log_errors,     \* the files log_error was called for (line 330)
    exitPath,       \* how the worker left the try block
    listingRaised,  \* listing the directory raised inside scan_directory
    progress_log,   \* the texts the worker wrote to progress_var in the loop
    reported,       \* what _update_ui_after_scan and the message box showed
    xfile,          \* the file under extraction: name, content, archive listing
    xenv,           \* the host: which optional libraries can be imported
    xentry,         \* the method the extraction is entered through
    xpc,            \* where the extraction stands
    xopened,        \* the backends opened on the file so far, with the step
    xmeta,          \* what the steps have found so far
    xresult,        \* what the entry method returned
    comic_archive,  \* ComicScanner.comic_archive, the scanner's one mutable attribute
    xdraw,          \* what the first file of a batch holds where a step reads it
    xfirst,         \* the first file of a batch and what its extraction returned
    xcalls,         \* number of extractions the scanner has been asked for
    connection,     \* ComicDatabase.connection: the thread whose connection it is
    closed,         \* the connections that have been closed
    cursor,         \* the connection of the cursor add_comic_from_file holds
    stmt_conns,     \* the connections the statements of the current call ran on
    pending         \* per connection, the file paths inserted and not committed

scanVars == <<start_btn, stop_btn, stop_scan, progress_var, confirm, db, comics,
              nsessions, pc, files, idx, imported, handed, results, log_errors,
              exitPath, listingRaised, progress_log, reported>>

xVars == <<xfile, xenv, xentry, xpc, xopened, xmeta, xresult, comic_archive,
          xdraw, xfirst, xcalls>>

dbVars == <<connection, closed, cursor, stmt_conns, pending>>

vars == <<scanVars, xVars, dbVars>>

----------------------------------------------------------------------------
\* Helpers.

\* The duplicate-free lists over S: the orders os.walk / os.listdir can yield.
RECURSIVE InjSeqs(_)
InjSeqs(S) ==
    {<<>>} \cup UNION {{<<x>> \o t : t \in InjSeqs(S \ {x})} : x \in S}

Range(q) == {q[k] : k \in 1..Len(q)}

\* The text tr('scanning') + '...' that _start_scan puts in progress_var.
ScanningMessage == [kind |-> "scanning", a |-> 0, b |-> 0, c |-> 0]

\* f"Processing {i} of {total}: {os.path.basename(file_path)}"
ProcessingMessage_WrongIndex(i, total, name) ==
    [kind |-> "processing", a |-> i - 1, b |-> total, c |-> name]

ProcessingMessage(i, total, name) ==
    [kind |-> "processing", a |-> i, b |-> total, c |-> name]

\* tr('scan_complete_msg', processed=processed, imported=imported)
ScanCompleteMessage(processed, n) ==
    [kind |-> "scan_complete", a |-> processed, b |-> n, c |-> 0]

NoReport == [msg |-> "none", processed |-> 0, imported |-> 0, dialog |-> "none"]

\* The message box the worker shows after _update_ui_after_scan: showinfo for
\* an empty listing (line 310), showerror in the except branch (line 338).
DialogOf(path) ==
    IF path = "empty" THEN "info_no_comics"
    ELSE IF path = "exception" THEN "error_scan"
    ELSE "none"

\* What the user has been shown once _update_ui_after_scan(processed, n) and
\* the message box of the path have run: the scan-complete text is set only
\* when processed > 0 (line 351).
UiReport(path, processed, n) ==
    [msg |-> IF processed > 0 THEN "scan_complete" ELSE "none",
     processed |-> processed, imported |-> n, dialog |-> DialogOf(path)]

----------------------------------------------------------------------------
\* Decisions of the code, one operator each.

\* ComicScanner.scan_directory: an exception while listing is caught and logged
\* and the empty list is returned.
ScanDirectory(raised, listing) == IF raised THEN <<>> ELSE listing

\* The places of _scan_directory at which self.stop_scan is read: only the
\* head of the loop body (line 317).
PollPoints_AlsoInFlight == {"check", "insert"}

PollPoints == {"check"}

\* A loop that never looks at the flag.
ShouldBreak_Never(flag) == FALSE

\* line 317: if self.stop_scan: break
ShouldBreak(flag) == flag

\* lines 329-330: an exception of the loop body is logged and the loop goes on.
FileErrorHandler_Propagate == "propagate"

FileErrorHandler == "log_and_continue"

\* line 311: return after the no-comics dialog.
AfterNoComicsDialog_FallThrough == "check"

AfterNoComicsDialog == "done"

\* ComicDatabase.add_comic_from_file: scan_file's error dict becomes a
\* ValueError; the INSERT fails on the UNIQUE file_path of a stored row, is
\* rolled back and re-raised; otherwise the row is committed and its id returned.
AddComicOutcome(scanOk, file, rows) ==
    IF ~scanOk THEN "raised"
    ELSE IF file \in rows THEN "raised"
    ELSE "stored"

\* The arguments _update_ui_after_scan is called with on each way out of the
\* try block: (total, imported) after the loop, whether it ran to its end or
\* was left by break (line 333); (0, 0) for an empty listing (line 309) and in
\* the except branch (line 337).
UiArgs(path, total, n) ==
    IF path \in {"exhausted", "break"} THEN <<total, n>> ELSE <<0, 0>>

----------------------------------------------------------------------------
\* The state after ComicsPanel.__init__: no scan has run, the start button is
\* enabled, the stop button disabled; the database may have failed to open.
ScanInit ==
    /\ start_btn = "normal"
    /\ stop_btn = "disabled"
    /\ stop_scan = FALSE
    /\ progress_var = [kind |-> "init", a |-> 0, b |-> 0, c |-> 0]
    /\ confirm = FALSE
    /\ db \in BOOLEAN
    /\ comics = {}
    /\ nsessions = 0
    /\ pc = "idle"
    /\ files = <<>>
    /\ idx = 0
    /\ imported = 0
    /\ handed = <<>>
    /\ results = <<>>
    /\ log_errors = {}
    /\ exitPath = "none"
    /\ listingRaised = FALSE
    /\ progress_log = <<>>
    /\ reported = NoReport
    /\ connection = "ui"
    /\ closed = {}
    /\ cursor = "none"
    /\ stmt_conns = {}
    /\ pending = [c \in {"ui", "worker"} |-> {}]

\* A start button that stays enabled during the scan.
StartButtonWhileScanning_Enabled == "normal"

\* line 275: self.start_btn.config(state='disabled')
StartButtonWhileScanning == "disabled"

uiVars == <<start_btn, stop_btn, stop_scan, progress_var, confirm>>

----------------------------------------------------------------------------
\* The UI thread.

\* _start_scan.  With no directory, or a path that is no directory, an error
\* box is shown and nothing changes.  Otherwise the buttons flip, the flag is
\* cleared and a worker thread is started on _scan_directory.
StartScan ==
    /\ start_btn = "normal"
    /\ ~confirm
    /\ nsessions < MaxSessions
    /\ \E valid \in BOOLEAN :
          IF ~valid
             THEN UNCHANGED vars
             ELSE /\ start_btn' = StartButtonWhileScanning
                  /\ stop_btn' = "normal"
                  /\ progress_var' = ScanningMessage
                  /\ stop_scan' = FALSE
                  /\ nsessions' = nsessions + 1
                  /\ pc' = "enumerate"
                  /\ files' = <<>>
                  /\ idx' = 0
                  /\ imported' = 0
                  /\ handed' = <<>>
                  /\ results' = <<>>
                  /\ log_errors' = {}
                  /\ exitPath' = "none"
                  /\ listingRaised' = FALSE
                  /\ progress_log' = <<>>
                  /\ reported' = NoReport
                  /\ UNCHANGED <<confirm, db, comics, xVars, dbVars>>

\* _stop_scan, up to the askyesno dialog being shown.
StopClick ==
    /\ stop_btn = "normal"
    /\ ~confirm
    /\ confirm' = TRUE
    /\ UNCHANGED <<start_btn, stop_btn, stop_scan, progress_var, db, comics,
                   nsessions, pc, files, idx, imported, handed, results,
                   log_errors, exitPath, listingRaised, progress_log, reported>>
    /\ UNCHANGED <<xVars, dbVars>>

\* _stop_scan, from the answer on: yes sets the flag.
StopAnswer(yes) ==
    /\ confirm
    /\ confirm' = FALSE
    /\ stop_scan' = IF yes THEN TRUE ELSE stop_scan
    /\ UNCHANGED <<start_btn, stop_btn, progress_var, db, comics, nsessions,
                   pc, files, idx, imported, handed, results, log_errors,
                   exitPath, listingRaised, progress_log, reported>>
    /\ UNCHANGED <<xVars, dbVars>>

----------------------------------------------------------------------------
\* The worker thread: _scan_directory.

CurFile == files[idx]

\* The stop flag is read at this place and it is set.
Polled == pc \in PollPoints /\ ShouldBreak(stop_scan)

\* lines 305-314: list the directory; an empty list ends the scan.
W_Enumerate ==
    /\ pc = "enumerate"
    /\ \E raised \in BOOLEAN, listing \in InjSeqs(Files) :
          /\ raised => listing = <<>>
          /\ listingRaised' = raised
          /\ files' = ScanDirectory(raised, listing)
    /\ idx' = 1
    /\ imported' = 0
    /\ IF files' = <<>>
          THEN exitPath' = "empty" /\ pc' = "finish"
          ELSE pc' = "check" /\ UNCHANGED exitPath
    /\ UNCHANGED <<uiVars, db, comics, nsessions, handed, results, log_errors,
                   progress_log, reported>>
    /\ UNCHANGED <<xVars, dbVars>>

\* line 316: the for statement finds no further file.
W_Exhausted ==
    /\ pc = "check"
    /\ idx > Len(files)
    /\ exitPath' = "exhausted"
    /\ pc' = "finish"
    /\ UNCHANGED <<uiVars, db, comics, nsessions, files, idx, imported, handed,
                   results, log_errors, listingRaised, progress_log, reported>>
    /\ UNCHANGED <<xVars, dbVars>>

\* lines 317-318: the flag is set where it is read: break.
W_Break ==
    /\ pc \in {"check", "scan_file", "insert"}
    /\ idx <= Len(files)
    /\ Polled
    /\ exitPath' = "break"
    /\ pc' = "finish"
    /\ UNCHANGED <<uiVars, db, comics, nsessions, files, idx, imported, handed,
                   results, log_errors, listingRaised, progress_log, reported>>
    /\ UNCHANGED <<xVars, dbVars>>

\* line 317, flag clear: go on to the progress update.
W_Check ==
    /\ pc = "check"
    /\ idx <= Len(files)
    /\ ~Polled
    /\ pc' = "progress"
    /\ UNCHANGED <<uiVars, db, comics, nsessions, files, idx, imported, handed,
                   results, log_errors, exitPath, listingRaised, progress_log,
                   reported>>
    /\ UNCHANGED <<xVars, dbVars>>

\* lines 321-323: the progress bar and label are set for file i.  The widget
\* calls are made from the worker thread and can raise (the window is going
\* away); that exception reaches the except branch of line 335.
W_Progress ==
    /\ pc = "progress"
    /\ \E tkOk \in BOOLEAN :
          IF tkOk
             THEN /\ progress_var' = ProcessingMessage(idx, Len(files), CurFile)
                  /\ progress_log' = Append(progress_log, progress_var')
                  /\ pc' = "scan_file"
                  /\ UNCHANGED exitPath
             ELSE /\ exitPath' = "exception"
                  /\ pc' = "finish"
                  /\ UNCHANGED <<progress_var, progress_log>>
    /\ UNCHANGED <<start_btn, stop_btn, stop_scan, confirm, db, comics,
                   nsessions, files, idx, imported, handed, results, log_errors,
                   listingRaised, reported>>
    /\ UNCHANGED <<xVars, dbVars>>

\* The loop body has raised for the current file (lines 329-330).
FileRaised ==
    /\ results' = Append(results, [file |-> CurFile, outcome |-> "raised"])
    /\ IF FileErrorHandler = "log_and_continue"
          THEN /\ log_errors' = log_errors \cup {CurFile}
               /\ idx' = idx + 1
               /\ pc' = "check"
               /\ UNCHANGED exitPath
          ELSE /\ exitPath' = "exception"
               /\ pc' = "finish"
               /\ UNCHANGED <<log_errors, idx>>

\* line 327, first half: self.db is tested; add_comic_from_file is entered and
\* runs scan_file on the file (database.py 849-879).
W_ScanFile ==
    /\ pc = "scan_file"
    /\ ~Polled
    /\ IF ~db
          THEN /\ results' = Append(results, [file |-> CurFile, outcome |-> "nodb"])
               /\ idx' = idx + 1
               /\ pc' = "check"
               /\ UNCHANGED <<handed, log_errors, exitPath>>
          ELSE /\ handed' = Append(handed, CurFile)
               /\ \E scanOk \in BOOLEAN :
                     IF AddComicOutcome(scanOk, CurFile, {}) = "raised"
                        THEN FileRaised
                        ELSE /\ pc' = "insert"
                             /\ UNCHANGED <<results, log_errors, idx, exitPath>>
    /\ UNCHANGED <<uiVars, db, comics, nsessions, files, imported,
                   listingRaised, progress_log, reported>>
    /\ UNCHANGED <<xVars, dbVars>>

\* line 327, second half: the INSERT and the commit (database.py 881-961), then
\* line 328.
W_Insert ==
    /\ pc = "insert"
    /\ ~Polled
    /\ IF AddComicOutcome(TRUE, CurFile, comics) = "raised"
          THEN /\ FileRaised
               /\ UNCHANGED <<comics, imported>>
          ELSE /\ comics' = comics \cup {CurFile}
               /\ imported' = imported + 1
               /\ results' = Append(results, [file |-> CurFile, outcome |-> "stored"])
               /\ idx' = idx + 1
               /\ pc' = "check"
               /\ UNCHANGED <<log_errors, exitPath>>
    /\ UNCHANGED <<uiVars, db, nsessions, files, handed, listingRaised,
                   progress_log, reported>>
    /\ UNCHANGED <<xVars, dbVars>>

\* The way out of _scan_directory: _update_ui_after_scan (lines 340-360) with
\* the arguments of the path taken, then the message box of that path, then
\* the return.  The buttons flip back; the scan-complete text is set when
\* processed > 0, and then the lists are reloaded: the loaders run
\* execute_query on the worker thread, which binds self.connection to the
\* worker's connection and commits on it.
W_Finish ==
    /\ pc = "finish"
    /\ start_btn' = "normal"
    /\ stop_btn' = "disabled"
    /\ LET args == UiArgs(exitPath, Len(files), imported) IN
          /\ progress_var' = IF args[1] > 0
                                THEN ScanCompleteMessage(args[1], args[2])
                                ELSE progress_var
          /\ reported' = UiReport(exitPath, args[1], args[2])
          /\ IF args[1] > 0 /\ db
                THEN /\ connection' = "worker"
                     /\ comics' = comics \cup pending["worker"]
                     /\ pending' = [pending EXCEPT !["worker"] = {}]
                ELSE UNCHANGED <<connection, comics, pending>>
    /\ pc' = IF exitPath = "empty" THEN AfterNoComicsDialog ELSE "done"
    /\ UNCHANGED <<stop_scan, confirm, db, nsessions, files, idx,
                   imported, handed, results, log_errors, exitPath,
                   listingRaised, progress_log>>
    /\ UNCHANGED <<xVars, closed, cursor, stmt_conns>>

----------------------------------------------------------------------------
\* Names as sequences of character codes.

\* str.lower() on one character (A-Z to a-z).
Lower(c) == IF c >= 65 /\ c <= 90 THEN c + 32 ELSE c

LowerStr(n) == [k \in 1..Len(n) |-> Lower(n[k])]

\* str.rfind: the last position of character c in n, 0 when there is none.
LastIndex(n, c) ==
    LET ks == {k \in 1..Len(n) : n[k] = c} IN
    IF ks = {} THEN 0 ELSE CHOOSE k \in ks : \A j \in ks : j <= k

\* os.path.basename: what follows the last '/'.
Basename(n) == SubSeq(n, LastIndex(n, 47) + 1, Len(n))

\* os.path.splitext(n)[1]: from the last '.' of the last component on, unless
\* only dots precede it in that component.
SplitExt(n) ==
    LET sep == LastIndex(n, 47)
        dot == LastIndex(n, 46)
    IN  IF dot > sep /\ \E k \in (sep + 1)..(dot - 1) : n[k] # 46
           THEN SubSeq(n, dot, Len(n))
           ELSE <<>>

StartsWith(n, c) == Len(n) > 0 /\ n[1] = c

EndsWith(n, c) == Len(n) > 0 /\ n[Len(n)] = c

\* a < b for Python strings: by code point at the first difference, a proper
\* prefix first.
LexLess(a, b) ==
    \E k \in 1..(Len(b)) :
        /\ k <= Len(a) + 1
        /\ \A j \in 1..(k - 1) : a[j] = b[j]
        /\ (k = Len(a) + 1 \/ a[k] < b[k])

\* list.sort() and [0]: insertion into a sorted list, equal names keep their order.
RECURSIVE InsertSorted(_, _)
InsertSorted(x, q) ==
    IF q = <<>> THEN <<x>>
    ELSE IF LexLess(x, Head(q)) THEN <<x>> \o q
    ELSE <<Head(q)>> \o InsertSorted(x, Tail(q))

RECURSIVE SortNames(_)
SortNames(q) ==
    IF q = <<>> THEN <<>>
    ELSE InsertSorted(q[Len(q)], SortNames(SubSeq(q, 1, Len(q) - 1)))

\* A list comprehension with a condition: the members of q that are in S, in order.
RECURSIVE Filter(_, _)
Filter(q, S) ==
    IF q = <<>> THEN <<>>
    ELSE (IF Head(q) \in S THEN <<Head(q)>> ELSE <<>>) \o Filter(Tail(q), S)

\* The duplicate-free lists over S of length at most n.
RECURSIVE InjSeqsUpTo(_, _)
InjSeqsUpTo(S, n) ==
    IF n = 0 THEN {<<>>}
    ELSE {<<>>} \cup UNION {{<<x>> \o t : t \in InjSeqsUpTo(S \ {x}, n - 1)} : x \in S}

----------------------------------------------------------------------------
\* Text functions of Python, on sequences of character codes.

\* \d of the regular expressions, on ASCII.
IsDigit(c) == c \in 48..57

\* \s of the regular expressions and the characters str.strip() removes, on
\* ASCII: tab, newline, vertical tab, form feed, return, FS GS RS US, space.
IsSpace(c) == c \in (9..13) \cup (28..32)

\* str.strip().
Strip(t) ==
    LET ks == {k \in 1..Len(t) : ~IsSpace(t[k])} IN
    IF ks = {} THEN <<>>
    ELSE SubSeq(t, CHOOSE k \in ks : \A j \in ks : k <= j,
                   CHOOSE k \in ks : \A j \in ks : j <= k)

\* os.path.splitext(n)[0].
SplitExtRoot(n) == SubSeq(n, 1, Len(n) - Len(SplitExt(n)))

\* sub occurs in t at position i.
SubstrAt(t, i, sub) ==
    /\ i + Len(sub) - 1 <= Len(t)
    /\ SubSeq(t, i, i + Len(sub) - 1) = sub

\* str.replace(sub, rep) for a non-empty sub: every occurrence, left to right,
\* without overlap.
RECURSIVE ReplaceAll(_, _, _)
ReplaceAll(t, sub, rep) ==
    IF Len(t) < Len(sub) \/ t = <<>> THEN t
    ELSE IF SubstrAt(t, 1, sub)
        THEN rep \o ReplaceAll(SubSeq(t, Len(sub) + 1, Len(t)), sub, rep)
    ELSE <<t[1]>> \o ReplaceAll(Tail(t), sub, rep)

\* The number a run of decimal digits denotes.
RECURSIVE DigitsToInt(_)
DigitsToInt(d) ==
    IF d = <<>> THEN 0
    ELSE 10 * DigitsToInt(SubSeq(d, 1, Len(d) - 1)) + (d[Len(d)] - 48)

\* A digit part as int() and float() accept it: digits, single underscores
\* only between digits.
IsDigitPart(d) ==
    /\ d # <<>>
    /\ \A k \in 1..Len(d) : IsDigit(d[k]) \/ d[k] = 95
    /\ IsDigit(d[1]) /\ IsDigit(d[Len(d)])
    /\ \A k \in 1..(Len(d) - 1) : ~(d[k] = 95 /\ d[k + 1] = 95)

\* t without a leading sign.
Unsigned(t) == IF t # <<>> /\ t[1] \in {43, 45} THEN Tail(t) ELSE t

\* int(text) succeeds: blanks around, an optional sign, a digit part.
IntOk(text) == IsDigitPart(Unsigned(Strip(text)))

\* int(text), where it succeeds.
IntOf(text) ==
    LET t == Strip(text)
        n == DigitsToInt(Filter(Unsigned(t), Range(t) \ {95}))
    IN  IF t[1] = 45 THEN 0 - n ELSE n

\* float(text) succeeds, for a text that contains '.': blanks around, an
\* optional sign, digit parts around one '.', at least one of them present, and
\* an optional exponent.
FloatOk(text) ==
    LET t == Unsigned(Strip(text))
        es == {k \in 1..Len(t) : t[k] \in {69, 101}}
        e == IF es = {} THEN Len(t) + 1 ELSE CHOOSE k \in es : \A j \in es : k <= j
        m == SubSeq(t, 1, e - 1)
        x == SubSeq(t, e + 1, Len(t))
        dot == LastIndex(m, 46)
        ip == SubSeq(m, 1, dot - 1)
        fp == SubSeq(m, dot + 1, Len(m))
    IN  /\ dot > 0
        /\ ip = <<>> \/ IsDigitPart(ip)
        /\ fp = <<>> \/ IsDigitPart(fp)
        /\ ip # <<>> \/ fp # <<>>
        /\ e <= Len(t) => IsDigitPart(Unsigned(x))

----------------------------------------------------------------------------
\* The metadata dict: a function from the keys it has to their values.

\* What reading a key the dict does not have gives: nothing.
Absent == [t |-> "absent", v |-> <<>>]

\* md.get(f)
Get(md, f) == IF f \in DOMAIN md THEN md[f] ELSE Absent

\* md[f] = v
Put(md, f, v) == [g \in DOMAIN md \cup {f} |-> IF g = f THEN v ELSE md[g]]

\* None
NoneV == [t |-> "none", v |-> <<>>]

\* A str, an int, a list of str.
StrV(text) == [t |-> "str", v |-> text]

IntV(n) == [t |-> "int", v |-> <<n>>]

ListV(q) == [t |-> "list", v |-> q]

\* tag_mapping of _parse_comic_info_xml: the field each simple tag is stored in.
tag_mapping ==
    [Title |-> "title", Series |-> "series", Number |-> "issue_number",
     Volume |-> "volume", Year |-> "year", Publisher |-> "publisher",
     Summary |-> "summary", Notes |-> "notes", Genre |-> "genre",
     LanguageISO |-> "language", Web |-> "web", PageCount |-> "page_count",
     Format |-> "format", BlackAndWhite |-> "black_and_white", Manga |-> "manga",
     Characters |-> "characters", Teams |-> "teams", Locations |-> "locations",
     ScanInformation |-> "scan_info", StoryArc |-> "story_arc",
     StoryArcNumber |-> "story_arc_number", SeriesGroup |-> "series_group",
     AlternateSeries |-> "alternate_series", AlternateNumber |-> "alternate_number",
     AlternateCount |-> "alternate_count", Count |-> "count",
     AgeRating |-> "age_rating", CommunityRating |-> "community_rating",
     MainCharacterOrTeam |-> "main_character_or_team", Review |-> "review"]

\* {}
EmptyDict == [f \in {} |-> Absent]

\* os.path.abspath for a relative path: the working directory, '/', the path.
\* The working directory of the model is /w.
abspath(path) ==
    IF StartsWith(path, 47) THEN path ELSE <<47, 119>> \o <<47>> \o path

\* The default dict of extract_metadata (lines 267-278).
DefaultMetadata(path, size) ==
    [f \in {"title", "year", "issue_number", "series", "subseries", "publisher",
            "authors", "file_path", "file_size", "file_modified"} |->
        IF f = "title" THEN StrV(SplitExtRoot(Basename(abspath(path))))
        ELSE IF f = "authors" THEN ListV(<<>>)
        ELSE IF f = "file_path" THEN StrV(abspath(path))
        ELSE IF f = "file_size" THEN IntV(size)
        ELSE IF f = "file_modified" THEN IntV(0)
        ELSE NoneV]

----------------------------------------------------------------------------
\* _parse_filename.

\* re.search(r'\((\d{4})\)', t): the position of the first '(' followed by
\* four digits and ')', 0 when there is none.
YearMatch(t) ==
    LET ks == {k \in 1..(Len(t) - 5) :
                  /\ t[k] = 40
                  /\ \A j \in (k + 1)..(k + 4) : IsDigit(t[j])
                  /\ t[k + 5] = 41}
    IN  IF ks = {} THEN 0 ELSE CHOOSE k \in ks : \A j \in ks : k <= j

\* The last position of the run of digits that starts at position k.
RunEnd(t, k) ==
    CHOOSE j \in k..Len(t) :
        /\ \A i \in k..j : IsDigit(t[i])
        /\ j = Len(t) \/ ~IsDigit(t[j + 1])

\* re.search(r'[#\s-](\d+)(?:[\s-]|$)', t): the first position at which a
\* '#', blank or '-' is followed by a run of digits that ends the text or is
\* followed by a blank or '-'; 0 when there is none.
IssueMatch(t) ==
    LET ks == {k \in 1..(Len(t) - 1) :
                  /\ t[k] \in {35, 45} \/ IsSpace(t[k])
                  /\ IsDigit(t[k + 1])
                  /\ LET j == RunEnd(t, k + 1) IN
                        j = Len(t) \/ t[j + 1] = 45 \/ IsSpace(t[j + 1])}
    IN  IF ks = {} THEN 0 ELSE CHOOSE k \in ks : \A j \in ks : k <= j

\* group(0) of the issue match at position k: prefix, digits, and the suffix
\* character when there is one.
IssueGroup0(t, k) ==
    LET j == RunEnd(t, k + 1) IN
    SubSeq(t, k, IF j = Len(t) THEN j ELSE j + 1)

\* The issue number looked for before the year in parentheses.
parse_filename_IssueFirst(md) ==
    LET filename == SplitExtRoot(Basename(md["file_path"].v))
        i == IssueMatch(filename)
        afterIssue == IF i = 0 THEN filename
                      ELSE Strip(ReplaceAll(filename, IssueGroup0(filename, i), <<32>>))
        y == YearMatch(afterIssue)
        afterYear == IF y = 0 THEN afterIssue
                     ELSE Strip(ReplaceAll(afterIssue, SubSeq(afterIssue, y, y + 5), <<>>))
        p1 == IF y = 0 THEN md
              ELSE Put(md, "year", IntV(DigitsToInt(SubSeq(afterIssue, y + 1, y + 4))))
        p2 == IF i = 0 THEN p1
              ELSE Put(p1, "issue_number",
                       StrV(SubSeq(filename, i + 1, RunEnd(filename, i + 1))))
    IN  Put(Put(p2, "series", StrV(Strip(afterYear))),
            "title", StrV(Strip(afterYear)))

\* _parse_filename: the year in parentheses, then the issue number, then the
\* trimmed rest as series and title.
parse_filename(md) ==
    LET filename == SplitExtRoot(Basename(md["file_path"].v))
        y == YearMatch(filename)
        afterYear == IF y = 0 THEN filename
                     ELSE Strip(ReplaceAll(filename, SubSeq(filename, y, y + 5), <<>>))
        i == IssueMatch(afterYear)
        afterIssue == IF i = 0 THEN afterYear
                      ELSE Strip(ReplaceAll(afterYear, IssueGroup0(afterYear, i), <<32>>))
        p1 == IF y = 0 THEN md
              ELSE Put(md, "year", IntV(DigitsToInt(SubSeq(filename, y + 1, y + 4))))
        p2 == IF i = 0 THEN p1
              ELSE Put(p1, "issue_number",
                       StrV(SubSeq(afterYear, i + 1, RunEnd(afterYear, i + 1))))
    IN  Put(Put(p2, "series", StrV(Strip(afterIssue))),
            "title", StrV(Strip(afterIssue)))

----------------------------------------------------------------------------
\* _parse_comic_info_xml.  A document is either not well-formed or a root
\* element with a list of children, each a tag and its text (<<>> for no text).

Element(tag, text) == [tag |-> tag, text |-> text]

\* root.findall(tag): the children with that tag, in document order.
findall(doc, tag) ==
    Filter(doc.children, {e \in Range(doc.children) : e.tag = tag})

\* The value stored for a simple tag with text (lines 626-640): year only as
\* an int, else left as it is; page_count, alternate_number, alternate_count,
\* count and community_rating as float (kept as the text it was read from) or
\* int, or as the raw text when that fails; black_and_white as a bool; all
\* others, volume included, as the text.
ConvertField(field, text, old) ==
    IF field = "year"
       THEN IF IntOk(text) THEN IntV(IntOf(text)) ELSE old
    ELSE IF field \in {"page_count", "alternate_number", "alternate_count",
                       "count", "community_rating"}
       THEN IF 46 \in Range(text)
               THEN IF FloatOk(text) THEN [t |-> "float", v |-> Strip(text)]
                    ELSE StrV(text)
               ELSE IF IntOk(text) THEN IntV(IntOf(text)) ELSE StrV(text)
    ELSE IF field = "black_and_white"
       THEN [t |-> "bool",
             v |-> <<IF LowerStr(text) \in {<<121, 101, 115>>, <<116, 114, 117, 101>>, <<49>>}
                        THEN 1 ELSE 0>>]
    ELSE StrV(text)

\* The creator tags in the order the code reads them, with the role of each:
\* writer, penciller, inker, colorist, letterer, cover_artist, editor.
CreatorTags ==
    << [tag |-> "Writer", role |-> <<119, 114, 105, 116, 101, 114>>],
       [tag |-> "Penciller", role |-> <<112, 101, 110, 99, 105, 108, 108, 101, 114>>],
       [tag |-> "Inker", role |-> <<105, 110, 107, 101, 114>>],
       [tag |-> "Colorist", role |-> <<99, 111, 108, 111, 114, 105, 115, 116>>],
       [tag |-> "Letterer", role |-> <<108, 101, 116, 116, 101, 114, 101, 114>>],
       [tag |-> "CoverArtist",
        role |-> <<99, 111, 118, 101, 114, 95, 97, 114, 116, 105, 115, 116>>],
       [tag |-> "Editor", role |-> <<101, 100, 105, 116, 111, 114>>] >>

\* One of the seven loops: every element of the tag with text sets
\* creators[name] = role, on a dict kept as a list of items in insertion
\* order: a name already there keeps its place and takes the new role.
RECURSIVE AddCreators(_, _, _)
AddCreators(items, elems, role) ==
    IF elems = <<>> THEN items
    ELSE LET name == Head(elems).text
             set == IF \E k \in 1..Len(items) : items[k].name = name
                       THEN [k \in 1..Len(items) |->
                                IF items[k].name = name
                                   THEN [name |-> name, role |-> role]
                                   ELSE items[k]]
                       ELSE Append(items, [name |-> name, role |-> role])
         IN  AddCreators(IF name # <<>> THEN set ELSE items, Tail(elems), role)

\* The seven loops, from the k-th on.
RECURSIVE Creators(_, _, _)
Creators(doc, items, k) ==
    IF k > Len(CreatorTags) THEN items
    ELSE Creators(doc,
                  AddCreators(items, findall(doc, CreatorTags[k].tag),
                              CreatorTags[k].role),
                  k + 1)

\* f"{name} ({role})"
AuthorEntry(name, role) == name \o <<32, 40>> \o role \o <<41>>

\* A parser that takes what it can read of a document cut short.
fromstring_Lenient(doc) == TRUE

\* ET.fromstring(xml_content) returns a root: the document is well-formed.
fromstring(doc) == doc.wellformed

\* _parse_comic_info_xml: ET.fromstring raises for a document that is not
\* well-formed and the except clause drops it; otherwise every mapped tag
\* whose first element has text sets its field, and the creators, when there
\* are any, replace authors.
parse_comic_info_xml(doc, md) ==
    IF ~fromstring(doc) THEN md
    ELSE LET creators == Creators(doc, <<>>, 1)
             tags == {tag \in DOMAIN tag_mapping :
                         /\ findall(doc, tag) # <<>>
                         /\ findall(doc, tag)[1].text # <<>>
                         /\ tag = "Year" => IntOk(findall(doc, tag)[1].text)}
             keys == {tag_mapping[tag] : tag \in tags}
                        \cup (IF creators # <<>> THEN {"authors"} ELSE {})
         IN  [f \in DOMAIN md \cup keys |->
                IF f = "authors" /\ creators # <<>>
                   THEN ListV([k \in 1..Len(creators) |->
                                  AuthorEntry(creators[k].name, creators[k].role)])
                ELSE IF \E tag \in tags : tag_mapping[tag] = f
                   THEN LET tag == CHOOSE g \in tags : tag_mapping[g] = f IN
                        ConvertField(f, findall(doc, tag)[1].text, Get(md, f))
                ELSE md[f]]

----------------------------------------------------------------------------
\* _extract_pdf_metadata.  The document info of a PDF: the texts of /Title,
\* /Author, /Producer and /CreationDate (<<>> for a key that is not there).

DocInfo(title, author, producer, created) ==
    [Title |-> title, Author |-> author, Producer |-> producer,
     CreationDate |-> created]

\* [a.strip() for a in text.split(';') if a.strip()]
RECURSIVE AuthorList(_)
AuthorList(text) ==
    LET ks == {k \in 1..Len(text) : text[k] = 59}
        k == IF ks = {} THEN Len(text) + 1 ELSE CHOOSE i \in ks : \A j \in ks : i <= j
        a == Strip(SubSeq(text, 1, k - 1))
    IN  (IF a # <<>> THEN <<a>> ELSE <<>>)
            \o (IF ks = {} THEN <<>> ELSE AuthorList(SubSeq(text, k + 1, Len(text))))

\* The year of a /CreationDate D:YYYY...: the four characters as an int, kept
\* only within 1900..2100; 0 for no year.
CreationYear(created) ==
    IF /\ SubstrAt(created, 1, <<68, 58>>)
       /\ Len(created) >= 6
       /\ IntOk(SubSeq(created, 3, 6))
       /\ IntOf(SubSeq(created, 3, 6)) >= 1900
       /\ IntOf(SubSeq(created, 3, 6)) <= 2100
       THEN IntOf(SubSeq(created, 3, 6))
       ELSE 0

\* The with-block of _extract_pdf_metadata.
pdf_docinfo(info, md) ==
    LET p1 == IF info.Title # <<>> THEN Put(md, "title", StrV(info.Title)) ELSE md
        p2 == IF info.Author # <<>>
                 THEN Put(p1, "authors", ListV(AuthorList(info.Author)))
                 ELSE p1
        p3 == IF info.Producer # <<>>
                 THEN Put(p2, "publisher", StrV(info.Producer))
                 ELSE p2
    IN  IF CreationYear(info.CreationDate) # 0
           THEN Put(p3, "year", IntV(CreationYear(info.CreationDate)))
           ELSE p3

----------------------------------------------------------------------------
\* The extractor's tables (ComicScanner.__init__).

\* The extensions the extractor knows, by their letters.
Ext ==
    [cbr |-> <<46, 99, 98, 114>>, cbz |-> <<46, 99, 98, 122>>,
     cbt |-> <<46, 99, 98, 116>>, cb7 |-> <<46, 99, 98, 55>>,
     z7 |-> <<46, 55, 122>>, pdf |-> <<46, 112, 100, 102>>,
     rar |-> <<46, 114, 97, 114>>]

\* self.supported_formats; '.7z' is removed when py7zr cannot be imported.
supported_formats(env) ==
    {Ext.cbr, Ext.cbz, Ext.cbt, Ext.cb7, Ext.pdf}
        \cup (IF env.p7zip THEN {Ext.z7} ELSE {})

\* self.image_extensions: .jpg .jpeg .png .gif .webp
image_extensions ==
    { <<46, 106, 112, 103>>, <<46, 106, 112, 101, 103>>, <<46, 112, 110, 103>>,
      <<46, 103, 105, 102>>, <<46, 119, 101, 98, 112>> }

\* 'comicinfo.xml'
ComicInfoName == <<99, 111, 109, 105, 99, 105, 110, 102, 111, 46, 120, 109, 108>>

\* The file names of the bounds: a.cbz a.cbr a.cb7 a.7z a.pdf a.cbt A.CBR
\* a.zip a.txt
FileNames ==
    { <<97, 46, 99, 98, 122>>, <<97, 46, 99, 98, 114>>, <<97, 46, 99, 98, 55>>,
      <<97, 46, 55, 122>>, <<97, 46, 112, 100, 102>>, <<97, 46, 99, 98, 116>>,
      <<65, 46, 67, 66, 82>>, <<97, 46, 122, 105, 112>>, <<97, 46, 116, 120, 116>> }

\* The entry names of the bounds: img002.jpg IMG001.PNG cover.gif
\* .thumb.jpeg m/ComicInfo.xml
N ==
    [img002_jpg |-> <<105, 109, 103, 48, 48, 50, 46, 106, 112, 103>>,
     IMG001_PNG |-> <<73, 77, 71, 48, 48, 49, 46, 80, 78, 71>>,
     cover_gif |-> <<99, 111, 118, 101, 114, 46, 103, 105, 102>>,
     hidden_jpeg |-> <<46, 116, 104, 117, 109, 98, 46, 106, 112, 101, 103>>,
     ComicInfo_xml |->
         <<109, 47, 67, 111, 109, 105, 99, 73, 110, 102, 111, 46, 120, 109, 108>>]

EntryNames ==
    {N.img002_jpg, N.IMG001_PNG, N.cover_gif, N.hidden_jpeg, N.ComicInfo_xml}

\* What the bytes of the file are: no file at that path, a zero-byte file, a
\* ZIP (PK\x03\x04), a RAR (Rar!), a 7z, a PDF (%PDF-), or anything else.
Contents == {"missing", "empty", "zip", "rar", "7z", "pdf", "junk"}

Archives == {"zip", "rar", "7z"}

----------------------------------------------------------------------------
\* The archive libraries, by what they do with a file of given bytes.

\* zipfile.ZipFile(path), rarfile.RarFile(path), py7zr.SevenZipFile(path) and
\* pikepdf.Pdf.open(path): the constructor returns only for bytes of its own
\* format and raises for anything else.
Opens(backend, content) ==
    \/ backend = "Zip" /\ content = "zip"
    \/ backend = "Rar" /\ content = "rar"
    \/ backend = "SevenZip" /\ content = "7z"
    \/ backend = "Pdf" /\ content = "pdf"

\* One call of a backend's constructor, as one entry of the call log.
OpenCall(step, backend) == [step |-> step, backend |-> backend]

\* is_comic_file: the lower-cased name's extension is a supported one.
is_comic_file(name, env) == SplitExt(LowerStr(name)) \in supported_formats(env)

\* The archive family the two archive dispatchers derive from the extension:
\* .cbr/.rar, .cb7/.7z, .cbz, anything else.
BackendOfExtension(ext) ==
    IF ext \in {Ext.cbr, Ext.rar} THEN "Rar"
    ELSE IF ext \in {Ext.cb7, Ext.z7} THEN "SevenZip"
    ELSE IF ext = Ext.cbz THEN "Zip"
    ELSE "none"

\* The entries a sidecar search keeps: base name, lower-cased, is comicinfo.xml.
comic_info_files(entries) ==
    Filter(entries, {e \in Range(entries) : LowerStr(Basename(e)) = ComicInfoName})

\* What a step hands back: the constructor calls it made, the backend it
\* settled on, the entry it picked, whether that entry's bytes were used, and
\* whether an exception left the step.
StepResult(calls, backend, entry, used, raised) ==
    [calls |-> calls, backend |-> backend, entry |-> entry, used |-> used,
     raised |-> raised]

\* The body shared by _extract_zip_metadata, _extract_rar_metadata and
\* _extract_7z_metadata once the backend is chosen: open, list, take the first
\* sidecar entry, read and parse it; every exception is logged and dropped.
ReadSidecar(backend, f, bad) ==
    IF ~Opens(backend, f.content)
       THEN StepResult(<<OpenCall("sidecar", backend)>>, backend, <<>>, FALSE, FALSE)
       ELSE LET found == comic_info_files(f.entries) IN
            IF found = <<>>
               THEN StepResult(<<OpenCall("sidecar", backend)>>, backend, <<>>,
                               FALSE, FALSE)
               ELSE StepResult(<<OpenCall("sidecar", backend)>>, backend, found[1],
                               found[1] \notin bad, FALSE)

\* _extract_rar_metadata: a failed import leaves the name rarfile unbound in
\* the except clauses, so the failure leaves the function as an exception.
extract_rar_metadata(f, env, bad) ==
    IF ~env.rarfile
       THEN StepResult(<<>>, "Rar", <<>>, FALSE, TRUE)
       ELSE ReadSidecar("Rar", f, bad)

\* _extract_7z_metadata: returns at once without py7zr.
extract_7z_metadata(f, env, bad) ==
    IF ~env.p7zip
       THEN StepResult(<<>>, "SevenZip", <<>>, FALSE, FALSE)
       ELSE ReadSidecar("SevenZip", f, bad)

extract_zip_metadata(f, env, bad) == ReadSidecar("Zip", f, bad)

\* _extract_pdf_metadata: open the document and copy its info fields.
extract_pdf_metadata(f) ==
    StepResult(<<OpenCall("sidecar", "Pdf")>>, "Pdf", <<>>,
               Opens("Pdf", f.content), FALSE)

\* _extract_comic_archive_metadata: dispatch on the extension alone.
extract_comic_archive_metadata(f, env, bad) ==
    LET b == BackendOfExtension(SplitExt(LowerStr(f.name))) IN
    IF b = "Rar" THEN extract_rar_metadata(f, env, bad)
    ELSE IF b = "SevenZip" THEN extract_7z_metadata(f, env, bad)
    ELSE IF b = "Zip" THEN extract_zip_metadata(f, env, bad)
    ELSE StepResult(<<>>, "none", <<>>, FALSE, FALSE)

\* The format-specific part of extract_metadata: .pdf, the four archive
\* extensions, nothing for any other extension.
MetadataStep(f, env, bad) ==
    LET ext == SplitExt(LowerStr(Basename(f.name))) IN
    IF ext = Ext.pdf THEN extract_pdf_metadata(f)
    ELSE IF ext \in {Ext.cbr, Ext.cbz, Ext.cb7, Ext.z7}
        THEN extract_comic_archive_metadata(f, env, bad)
    ELSE StepResult(<<>>, "none", <<>>, FALSE, FALSE)

\* str.endswith(suffix).
EndsWithStr(n, suffix) ==
    /\ Len(n) >= Len(suffix)
    /\ SubSeq(n, Len(n) - Len(suffix) + 1, Len(n)) = suffix

\* The entries whose lower-cased name has an image extension, in listing order.
image_files_by_extension(entries) ==
    Filter(entries,
           {e \in Range(entries) : SplitExt(LowerStr(e)) \in image_extensions})

\* The loop of _extract_zip_cover: directories and entries with a hidden base
\* name are skipped, then entries without an image extension, then entries
\* that cannot be read.
zip_image_files(entries, bad) ==
    Filter(entries,
           {e \in Range(entries) :
               /\ ~(EndsWith(e, 47) \/ StartsWith(Basename(e), 46))
               /\ SplitExt(LowerStr(e)) \in image_extensions
               /\ e \notin bad})

\* image_files.sort(); first_image = image_files[0], then the read of it.
FirstImage(calls, backend, image_files, bad) ==
    IF image_files = <<>>
       THEN StepResult(calls, backend, <<>>, FALSE, FALSE)
       ELSE LET first_image == SortNames(image_files)[1] IN
            StepResult(calls, backend, first_image, first_image \notin bad, FALSE)

\* _extract_rar_cover: every failure, the failed import included, ends in
\* (None, None).
extract_rar_cover(f, env, bad) ==
    IF ~env.rarfile
       THEN StepResult(<<>>, "Rar", <<>>, FALSE, FALSE)
    ELSE IF ~Opens("Rar", f.content)
       THEN StepResult(<<OpenCall("cover", "Rar")>>, "Rar", <<>>, FALSE, FALSE)
    ELSE FirstImage(<<OpenCall("cover", "Rar")>>, "Rar",
                    image_files_by_extension(f.entries), bad)

\* _extract_7z_cover.
extract_7z_cover(f, env, bad) ==
    IF ~env.p7zip
       THEN StepResult(<<>>, "SevenZip", <<>>, FALSE, FALSE)
    ELSE IF ~Opens("SevenZip", f.content)
       THEN StepResult(<<OpenCall("cover", "SevenZip")>>, "SevenZip", <<>>,
                       FALSE, FALSE)
    ELSE FirstImage(<<OpenCall("cover", "SevenZip")>>, "SevenZip",
                    image_files_by_extension(f.entries), bad)

\* _is_rar_file: with rarfile, whether RarFile opens the file; without it,
\* whether the name ends in .cbr or .rar.
is_rar_file(f, env) ==
    IF env.rarfile
       THEN IF f.content = "missing"
               THEN [calls |-> <<>>, result |-> FALSE]
               ELSE [calls |-> <<OpenCall("cover", "Rar")>>,
                     result |-> Opens("Rar", f.content)]
       ELSE [calls |-> <<>>,
             result |-> \/ EndsWithStr(LowerStr(f.name), Ext.cbr)
                        \/ EndsWithStr(LowerStr(f.name), Ext.rar)]

\* _extract_zip_cover: existence and size, the RAR probe and the hand-over to
\* _extract_rar_cover, is_zipfile, the test open, then the selection.
extract_zip_cover(f, env, bad) ==
    IF f.content \in {"missing", "empty"}
       THEN StepResult(<<>>, "Zip", <<>>, FALSE, FALSE)
    ELSE LET probe == is_rar_file(f, env) IN
         IF probe.result
            THEN LET r == extract_rar_cover(f, env, bad) IN
                 StepResult(probe.calls \o r.calls, r.backend, r.entry, r.used,
                            r.raised)
         ELSE IF ~Opens("Zip", f.content)
            THEN StepResult(probe.calls, "Zip", <<>>, FALSE, FALSE)
         ELSE FirstImage(probe.calls \o <<OpenCall("cover", "Zip"),
                                          OpenCall("cover", "Zip")>>,
                         "Zip", zip_image_files(f.entries, bad), bad)

\* _extract_pdf_cover: the first page as rendered by pdftoppm, when the tool
\* runs and the file is a PDF.
extract_pdf_cover(f, tool) ==
    StepResult(<<>>, "Pdf", <<>>, tool /\ f.content = "pdf", FALSE)

\* _extract_archive_cover: dispatch on the extension alone.
extract_archive_cover(f, env, bad) ==
    LET b == BackendOfExtension(SplitExt(LowerStr(f.name))) IN
    IF b = "Rar" THEN extract_rar_cover(f, env, bad)
    ELSE IF b = "Zip" THEN extract_zip_cover(f, env, bad)
    ELSE IF b = "SevenZip" THEN extract_7z_cover(f, env, bad)
    ELSE StepResult(<<>>, "none", <<>>, FALSE, FALSE)

\* extract_cover_image.
extract_cover_image(f, env, bad, tool) ==
    LET ext == SplitExt(LowerStr(f.name)) IN
    IF ext = Ext.pdf THEN extract_pdf_cover(f, tool)
    ELSE IF ext \in {Ext.cbr, Ext.cbz, Ext.cb7, Ext.z7}
        THEN extract_archive_cover(f, env, bad)
    ELSE StepResult(<<>>, "none", <<>>, FALSE, FALSE)

----------------------------------------------------------------------------
\* One extraction of one file: scan_file or extract_metadata, step by step.

NoStep == StepResult(<<>>, "none", <<>>, FALSE, FALSE)

\* The metadata dict before it is built.
NoMeta ==
    [built |-> FALSE, sidecar |-> NoStep, cover |-> NoStep, readable |-> TRUE,
     data |-> "none", held |-> {}, md |-> EmptyDict]

NoResult == [kind |-> "none", error |-> "none"]

\* {'error': ...}
ErrorResult(e) == [kind |-> "error", error |-> e]

\* {} as returned by extract_metadata after an exception.
EmptyResult == [kind |-> "empty", error |-> "none"]

\* The metadata dict.
MetadataResult == [kind |-> "metadata", error |-> "none"]

\* A ComicInfo.xml with a root element and nothing in it; a PDF without
\* document info.
PlainDoc == [wellformed |-> TRUE, children |-> <<>>]

NoDocInfo == DocInfo(<<>>, <<>>, <<>>, <<>>)

\* A file: its name, what its bytes are, the entries an archive lists, the
\* document every ComicInfo.xml entry holds, the document info of a PDF.
File(name, content, entries, xml, docinfo) ==
    [name |-> name, content |-> content, entries |-> entries, xml |-> xml,
     docinfo |-> docinfo]

\* The files of the bounds: only an archive has entries.
XFiles ==
    {File(n, c, <<>>, PlainDoc, NoDocInfo) :
        n \in FileNames, c \in Contents \ Archives}
    \cup {File(n, c, e, PlainDoc, NoDocInfo) :
            n \in FileNames, c \in Archives, e \in InjSeqsUpTo(EntryNames, MaxEntries)}

\* The host: whether rarfile and py7zr can be imported.
XEnvs == [rarfile : BOOLEAN, p7zip : BOOLEAN]

\* The entries of the file that cannot be read back, at most one.
BadSets(f) == {{}} \cup {{e} : e \in Range(f.entries)}

\* A scanner fresh from __init__, asked for its first extraction: no step
\* has read anything from a file yet.
FirstCall ==
    /\ comic_archive = NoneV
    /\ xdraw = [sidecar |-> {}, cover |-> {}, tool |-> TRUE, data |-> "none"]
    /\ xfirst = [file |-> "none", result |-> NoResult, md |-> EmptyDict]
    /\ xcalls = 1

\* No extraction in progress.
XIdle ==
    /\ FirstCall
    /\ xfile = File(<<97, 46, 99, 98, 122>>, "missing", <<>>, PlainDoc, NoDocInfo)
    /\ xenv = [rarfile |-> TRUE, p7zip |-> TRUE]
    /\ xentry = "none"
    /\ xpc = "idle"
    /\ xopened = <<>>
    /\ xmeta = NoMeta
    /\ xresult = NoResult

\* A call of scan_file or of extract_metadata on some file on some host.
XCalled ==
    /\ FirstCall
    /\ xfile \in XFiles
    /\ xenv \in XEnvs
    /\ xentry \in {"scan_file", "extract_metadata"}
    /\ xpc = "call"
    /\ xopened = <<>>
    /\ xmeta = NoMeta
    /\ xresult = NoResult

\* The bytes of a cover: the thumbnail in JPEG, or the bytes as they were read.
Thumbnail == [t |-> "bytes", v |-> <<116, 104, 117, 109, 98, 110, 97, 105, 108>>]

Original == [t |-> "bytes", v |-> <<111, 114, 105, 103, 105, 110, 97, 108>>]

\* The MIME type _process_image_data derives from the extension of the entry.
MimeOf(name) ==
    LET ext == SplitExt(LowerStr(name)) IN
    IF ext \in {<<46, 106, 112, 103>>, <<46, 106, 112, 101, 103>>} THEN <<105, 109, 97, 103, 101, 47, 106, 112, 101, 103>>
    ELSE IF ext = <<46, 112, 110, 103>> THEN <<105, 109, 97, 103, 101, 47, 112, 110, 103>>
    ELSE IF ext = <<46, 103, 105, 102>> THEN <<105, 109, 97, 103, 101, 47, 103, 105, 102>>
    ELSE IF ext = <<46, 119, 101, 98, 112>> THEN <<105, 109, 97, 103, 101, 47, 119, 101, 98, 112>>
    ELSE <<97, 112, 112, 108, 105, 99, 97, 116, 105, 111, 110, 47, 111, 99, 116, 101, 116, 45, 115, 116, 114, 101, 97, 109>>

\* (None, None)
NoCover == [image |-> NoneV, type |-> NoneV]

\* No cover when Pillow cannot decode the bytes.
process_image_data_DropOnFailure(name, data) ==
    IF data = "image"
       THEN [image |-> Thumbnail, type |-> StrV(<<105, 109, 97, 103, 101, 47, 106, 112, 101, 103>>)]
       ELSE NoCover

\* _process_image_data: the thumbnail as image/jpeg, or, when Pillow cannot
\* decode the bytes, the bytes as they are with the type of the extension.
process_image_data(name, data) ==
    IF data = "image"
       THEN [image |-> Thumbnail, type |-> StrV(<<105, 109, 97, 103, 101, 47, 106, 112, 101, 103>>)]
       ELSE [image |-> Original, type |-> StrV(MimeOf(name))]

\* What extract_cover_image returns for the entry the step picked: nothing
\* when no entry was read or its bytes are empty (lines 801-803); for a PDF
\* the rendered page as image/jpeg, nothing when Pillow raises on it.
CoverOf(r, data) ==
    IF ~r.used THEN NoCover
    ELSE IF r.backend = "Pdf"
        THEN IF data = "image"
                THEN [image |-> Thumbnail, type |-> StrV(<<105, 109, 97, 103, 101, 47, 106, 112, 101, 103>>)]
                ELSE NoCover
    ELSE IF data = "empty" THEN NoCover
    ELSE process_image_data(r.entry, data)

\* The type stored whether there are cover bytes or not.
AttachCover_TypeAlways(md, c) ==
    IF c.image # NoneV
       THEN Put(Put(md, "cover_image", c.image), "cover_image_type", c.type)
       ELSE Put(md, "cover_image_type", c.type)

\* extract_metadata, lines 290-293: the two cover keys are set when there are
\* cover bytes.
AttachCover(md, c) ==
    IF c.image # NoneV
       THEN Put(Put(md, "cover_image", c.image), "cover_image_type", c.type)
       ELSE md

\* The size os.path.getsize returns.
SizeOf(f) == IF f.content = "empty" THEN 0 ELSE 1

\* The format-specific step followed by the filename heuristic, which then
\* has the last word.
ApplyFormat_FilenameLast(f, r, md) ==
    IF ~r.used THEN md
    ELSE IF r.backend = "Pdf" THEN pdf_docinfo(f.docinfo, md)
    ELSE parse_filename(parse_comic_info_xml(f.xml, md))

\* What the format-specific step makes of the dict: the sidecar it has read,
\* the document info of the PDF it has opened.
ApplyFormat(f, r, md) ==
    IF ~r.used THEN md
    ELSE IF r.backend = "Pdf" THEN pdf_docinfo(f.docinfo, md)
    ELSE parse_comic_info_xml(f.xml, md)

\* scan_file up to its call of extract_metadata: existence, size, extension.
X_ScanFile ==
    /\ xpc = "call"
    /\ xentry = "scan_file"
    /\ IF xfile.content = "missing"
          THEN xresult' = ErrorResult("not_found") /\ xpc' = "done"
       ELSE IF xfile.content = "empty"
          THEN xresult' = ErrorResult("empty_file") /\ xpc' = "done"
       ELSE IF ~is_comic_file(xfile.name, xenv)
          THEN xresult' = ErrorResult("unsupported") /\ xpc' = "done"
       ELSE xresult' = xresult /\ xpc' = "stat"
    /\ UNCHANGED <<xfile, xenv, xentry, xopened, xmeta, comic_archive, xdraw,
                   xfirst, xcalls, scanVars, dbVars>>

\* extract_metadata called by itself.
X_ExtractMetadata ==
    /\ xpc = "call"
    /\ xentry = "extract_metadata"
    /\ xpc' = "stat"
    /\ UNCHANGED <<xfile, xenv, xentry, xopened, xmeta, xresult, comic_archive,
                   xdraw, xfirst, xcalls, scanVars, dbVars>>

\* extract_metadata builds the default dict: getsize raises for a missing
\* file, which ends the call with {}.
X_Stat ==
    /\ xpc = "stat"
    /\ IF xfile.content = "missing"
          THEN /\ xresult' = EmptyResult
               /\ xpc' = "return"
               /\ xmeta' = xmeta
          ELSE /\ xmeta' = [xmeta EXCEPT
                              !.built = TRUE,
                              !.md = parse_filename(
                                         DefaultMetadata(xfile.name, SizeOf(xfile)))]
               /\ xpc' = "format"
               /\ xresult' = xresult
    /\ UNCHANGED <<xfile, xenv, xentry, xopened, comic_archive, xdraw, xfirst,
                   xcalls, scanVars, dbVars>>

\* What a step of the given name acquires on file f: a handle for every
\* constructor call that returned, and a temporary directory when a 7z entry
\* is extracted or pdftoppm is run.
Acquired(f, r, step) ==
    {[kind |-> "handle", step |-> r.calls[k].step, backend |-> r.calls[k].backend] :
        k \in {i \in 1..Len(r.calls) : Opens(r.calls[i].backend, f.content)}}
    \cup (IF (r.backend = "SevenZip" /\ r.entry # <<>>)
                \/ (r.backend = "Pdf" /\ step = "cover")
             THEN {[kind |-> "tempdir", step |-> step, backend |-> r.backend]}
             ELSE {})

\* Handles and directories given back only where the step runs to its last
\* line.
Released_OnLastLineOnly(f, r, step) == IF r.used THEN Acquired(f, r, step) ELSE {}

\* What the step has given back when it returns: every constructor call
\* and every TemporaryDirectory is the head of a with block, which is left
\* by return and by exception alike.
Released(f, r, step) == Acquired(f, r, step)

\* self.comic_archive after _extract_comic_archive_metadata: the branches of
\* the three archive families do not assign it, and the comicapi branch
\* clears it in its finally clause.
comic_archive_after_Kept(f, before) == StrV(f.name)

comic_archive_after(f, before) ==
    LET ext == SplitExt(LowerStr(Basename(f.name))) IN
    IF ext \in {Ext.cbr, Ext.cbz, Ext.cb7, Ext.z7}
          /\ BackendOfExtension(SplitExt(LowerStr(f.name))) = "none"
       THEN NoneV
       ELSE before

\* The format-specific metadata, for a file whose unreadable entries are
\* bad; an exception that leaves it ends the call with {}.
Format(bad) ==
    LET r == MetadataStep(xfile, xenv, bad) IN
    /\ xopened' = xopened \o r.calls
    /\ xmeta' = [xmeta EXCEPT !.sidecar = r,
                              !.held = (@ \cup Acquired(xfile, r, "sidecar"))
                                          \ Released(xfile, r, "sidecar"),
                              !.md = ApplyFormat(xfile, r, @)]
    /\ comic_archive' = comic_archive_after(xfile, comic_archive)
    /\ IF r.raised
          THEN xresult' = EmptyResult /\ xpc' = "return"
          ELSE xresult' = xresult /\ xpc' = "cover"
    /\ UNCHANGED <<xfile, xenv, xentry, scanVars, dbVars>>

X_Format ==
    /\ xpc = "format"
    /\ \E bad \in BadSets(xfile) : Format(bad)
    /\ UNCHANGED <<xdraw, xfirst, xcalls>>

\* What a host and a file can hold for the cover step: the unreadable
\* entries; whether pdftoppm runs and writes the page, for a .pdf name only;
\* the bytes of the entry read as cover, which are nothing, bytes that are
\* no image, or an image.
CoverOutcomes(f, env) ==
    {o \in [bad : BadSets(f),
            tool : IF SplitExt(LowerStr(f.name)) = Ext.pdf THEN BOOLEAN ELSE {TRUE},
            data : {"empty", "garbled", "image"}] :
        extract_cover_image(f, env, o.bad, o.tool).used \/ o.data = "image"}

\* The cover, then return metadata.
Cover(bad, tool, data) ==
    LET r == extract_cover_image(xfile, xenv, bad, tool) IN
    /\ xopened' = xopened \o r.calls
    /\ xmeta' = [xmeta EXCEPT !.cover = r, !.readable = (bad = {}),
                              !.data = data,
                              !.held = (@ \cup Acquired(xfile, r, "cover"))
                                          \ Released(xfile, r, "cover"),
                              !.md = AttachCover(@, CoverOf(r, data))]
    /\ xresult' = MetadataResult
    /\ xpc' = "return"
    /\ UNCHANGED <<xfile, xenv, xentry, comic_archive, scanVars, dbVars>>

X_Cover ==
    /\ xpc = "cover"
    /\ \E o \in CoverOutcomes(xfile, xenv) : Cover(o.bad, o.tool, o.data)
    /\ UNCHANGED <<xdraw, xfirst, xcalls>>

\* Back in the caller: scan_file turns {} into an error.
X_Return ==
    /\ xpc = "return"
    /\ xresult' = IF xentry = "scan_file" /\ xresult = EmptyResult
                     THEN ErrorResult("failed")
                     ELSE xresult
    /\ xpc' = "done"
    /\ UNCHANGED <<xfile, xenv, xentry, xopened, xmeta, comic_archive, xdraw,
                   xfirst, xcalls, scanVars, dbVars>>

----------------------------------------------------------------------------
Init == ScanInit /\ XIdle

Next ==
    \/ StartScan
    \/ StopClick
    \/ \E yes \in BOOLEAN : StopAnswer(yes)
    \/ W_Enumerate
    \/ W_Exhausted
    \/ W_Break
    \/ W_Check
    \/ W_Progress
    \/ W_ScanFile
    \/ W_Insert
    \/ W_Finish

Spec == Init /\ [][Next]_vars

\* The steps of the worker thread.
Worker ==
    \/ W_Enumerate
    \/ W_Exhausted
    \/ W_Break
    \/ W_Check
    \/ W_Progress
    \/ W_ScanFile
    \/ W_Insert
    \/ W_Finish

\* The scan session with a worker that keeps running: the thread started at
\* line 282 is scheduled as long as it has a step to take, and the listing,
\* each extraction and each insert come back.
LiveSpec == Spec /\ WF_vars(Worker)

----------------------------------------------------------------------------
\* The scan session with the statements of add_comic_from_file taken one by
\* one, the queries of the UI thread, and cleanup.  A connection is named by
\* the thread it was made on: "ui" is the connection of the UI thread's
\* thread-local storage, "worker" that of a worker thread.

\* database.py line 881: cursor = self.connection.cursor(), on whatever
\* connection self.connection is bound to when the worker gets there; on a
\* closed connection it raises, which the worker logs (line 329).
T_Cursor ==
    /\ pc = "insert"
    /\ IF connection \in closed
          THEN /\ FileRaised
               /\ UNCHANGED <<cursor, stmt_conns>>
          ELSE /\ cursor' = connection
               /\ stmt_conns' = {}
               /\ pc' = "sql_insert"
               /\ UNCHANGED <<results, log_errors, idx, exitPath>>
    /\ UNCHANGED <<uiVars, db, comics, nsessions, files, imported, handed,
                   listingRaised, progress_log, reported>>
    /\ UNCHANGED <<xVars, connection, closed, pending>>

\* lines 922-943: INSERT INTO comics through the cursor.  It raises on a
\* closed connection, for a file_path that is stored already (UNIQUE), and
\* when another connection holds rows it has not committed (the database is
\* locked); the handler of line 963 rolls back on self.connection and
\* re-raises.
T_Insert ==
    /\ pc = "sql_insert"
    /\ IF \/ cursor \in closed
          \/ CurFile \in comics \cup pending[cursor]
          \/ \E c \in DOMAIN pending \ {cursor} : pending[c] # {}
          THEN /\ FileRaised
               /\ pending' = IF connection \in closed
                                 THEN pending
                                 ELSE [pending EXCEPT ![connection] = {}]
               /\ UNCHANGED stmt_conns
          ELSE /\ pending' = [pending EXCEPT ![cursor] = @ \cup {CurFile}]
               /\ stmt_conns' = stmt_conns \cup {cursor}
               /\ pc' = "authors"
               /\ UNCHANGED <<results, log_errors, idx, exitPath>>
    /\ UNCHANGED <<uiVars, db, comics, nsessions, files, imported, handed,
                   listingRaised, progress_log, reported>>
    /\ UNCHANGED <<xVars, connection, closed, cursor>>

\* lines 946-950, for a record with no author or with one:
\* _get_or_create_author runs its statements on self.connection, then
\* _add_comic_author calls execute_query, whose decorator binds
\* self.connection to the connection of the calling thread, the worker;
\* execute_query inserts and commits there, or, when the database is locked
\* by the other connection, rolls back and raises, which _add_comic_author
\* logs.
T_Author ==
    /\ pc = "authors"
    /\ \E authors \in BOOLEAN :
          IF ~authors
             THEN UNCHANGED <<connection, stmt_conns, pending, comics>>
             ELSE /\ connection' = "worker"
                  /\ stmt_conns' = stmt_conns \cup {connection, "worker"}
                  /\ IF pending["ui"] # {}
                        THEN /\ pending' = [pending EXCEPT !["worker"] = {}]
                             /\ UNCHANGED comics
                        ELSE /\ comics' = comics \cup pending["worker"]
                             /\ pending' = [pending EXCEPT !["worker"] = {}]
    /\ pc' = "commit"
    /\ UNCHANGED <<uiVars, db, nsessions, files, idx, imported, handed, results,
                   log_errors, exitPath, listingRaised, progress_log, reported>>
    /\ UNCHANGED <<xVars, closed, cursor>>

\* lines 952-954: self.connection.commit() on the connection self.connection
\* is bound to now, and the id is returned, which counts the file as
\* imported (comics_panel.py line 328).  On a closed connection commit
\* raises, and so does the rollback of line 964.
T_Commit ==
    /\ pc = "commit"
    /\ IF connection \in closed
          THEN /\ FileRaised
               /\ UNCHANGED <<comics, imported, pending, stmt_conns>>
          ELSE /\ comics' = comics \cup pending[connection]
               /\ pending' = [pending EXCEPT ![connection] = {}]
               /\ stmt_conns' = stmt_conns \cup {connection}
               /\ imported' = imported + 1
               /\ results' = Append(results, [file |-> CurFile, outcome |-> "stored"])
               /\ idx' = idx + 1
               /\ pc' = "check"
               /\ UNCHANGED <<log_errors, exitPath>>
    /\ UNCHANGED <<uiVars, db, nsessions, files, handed, listingRaised,
                   progress_log, reported>>
    /\ UNCHANGED <<xVars, connection, closed, cursor>>

\* The UI thread runs a query while the worker is busy (a search, a filter:
\* _load_comics, lines 494-513): get_comics and execute_query are decorated
\* with with_connection, which binds self.connection to the UI thread's
\* connection, and execute_query commits on it.
UiQuery ==
    /\ db
    /\ connection' = "ui"
    /\ comics' = comics \cup pending["ui"]
    /\ pending' = [pending EXCEPT !["ui"] = {}]
    /\ UNCHANGED <<uiVars, db, nsessions, pc, files, idx, imported, handed,
                   results, log_errors, exitPath, listingRaised, progress_log,
                   reported>>
    /\ UNCHANGED <<xVars, closed, cursor, stmt_conns>>

\* ComicsPanel.cleanup on the UI thread (lines 877-900): the flag is set,
\* self.db.connection is committed, close_all_connections closes the
\* connection of the calling thread, and self.db becomes None.  What the
\* closed connection had not committed is gone.
Cleanup ==
    /\ db
    /\ stop_scan' = TRUE
    /\ comics' = IF connection \in closed THEN comics
                 ELSE comics \cup pending[connection]
    /\ closed' = closed \cup {"ui"}
    /\ pending' = [c \in DOMAIN pending |->
                      IF c = "ui" \/ c = connection THEN {} ELSE pending[c]]
    /\ db' = FALSE
    /\ UNCHANGED <<start_btn, stop_btn, progress_var, confirm, nsessions, pc,
                   files, idx, imported, handed, results, log_errors, exitPath,
                   listingRaised, progress_log, reported>>
    /\ UNCHANGED <<xVars, connection, cursor, stmt_conns>>

ThreadsNext ==
    \/ StartScan
    \/ StopClick
    \/ \E yes \in BOOLEAN : StopAnswer(yes)
    \/ W_Enumerate
    \/ W_Exhausted
    \/ W_Break
    \/ W_Check
    \/ W_Progress
    \/ W_ScanFile
    \/ T_Cursor
    \/ T_Insert
    \/ T_Author
    \/ T_Commit
    \/ W_Finish
    \/ UiQuery
    \/ Cleanup

ThreadsSpec == Init /\ [][ThreadsNext]_vars

\* The extractor called on every file and host of the bounds.
ExtractInit == ScanInit /\ db = TRUE /\ XCalled

ExtractNext ==
    \/ X_ScanFile
    \/ X_ExtractMetadata
    \/ X_Stat
    \/ X_Format
    \/ X_Cover
    \/ X_Return

ExtractSpec == ExtractInit /\ [][ExtractNext]_vars

\* The files whose names, sidecars and document infos the metadata steps are
\* run on: a .cbz named by up to MaxTokens pieces of
\* 'Amazing Tales - 007 (1998)' and of names like it, 'A 007 (1998).cbz' with
\* a ComicInfo.xml of up to MaxTags elements or with one cut short, a PDF
\* with a document info, a .cbz whose bytes are no ZIP archive, and an
\* archive of each family whose pages are no .jpg.
MetaFiles ==
    LET RECURSIVE Flatten(_)
        Flatten(q) == IF q = <<>> THEN <<>> ELSE Head(q) \o Flatten(Tail(q))
        tokens == {<<65, 109, 97, 122, 105, 110, 103, 32, 84, 97, 108, 101, 115, 32, 45, 32>>,
                   <<48, 48, 55>>, <<32, 40, 49, 57, 57, 56, 41>>,
                   <<40, 51, 48, 48, 48, 41>>, <<35, 49, 50>>, <<32>>,
                   <<49, 50, 45>>}
        elements == {Element("Title", <<84>>), Element("Title", <<>>),
                     Element("Number", <<55>>),
                     Element("Year", <<50, 48, 49, 50>>),
                     Element("Year", <<97, 98, 99>>),
                     Element("Year", <<51, 48, 48, 48>>),
                     Element("Volume", <<97, 98, 99>>),
                     Element("PageCount", <<97, 98, 99>>),
                     Element("PageCount", <<49, 46, 53>>),
                     Element("Count", <<49, 50>>),
                     Element("Writer", <<74, 97, 110, 101, 32, 68, 111, 101>>),
                     Element("Penciller", <<74, 97, 110, 101, 32, 68, 111, 101>>),
                     Element("Writer", <<>>),
                     Element("Editor", <<66, 111, 98>>)}
        infos == {DocInfo(t, a, <<>>, c) :
                     t \in {<<>>, <<84>>},
                     a \in {<<>>, <<66, 111, 98, 59, 32, 65, 59>>},
                     c \in {<<>>, <<68, 58, 50, 48, 49, 50, 48, 49>>,
                            <<68, 58, 51, 48, 48, 48, 48, 49>>,
                            <<68, 58, 97, 98, 99, 100, 48, 49>>,
                            <<50, 48, 49, 50, 48, 49>>}}
                 \cup {DocInfo(<<>>, <<>>, <<80>>, <<>>)}
        sidecar == <<N.ComicInfo_xml, N.img002_jpg>>
        named == <<65, 32, 48, 48, 55, 32, 40, 49, 57, 57, 56, 41>>
    IN  {File(Flatten(q) \o Ext.cbz, "zip", <<>>, PlainDoc, NoDocInfo) :
            q \in UNION {[1..k -> tokens] : k \in 0..MaxTokens}}
        \cup {File(named \o Ext.cbz, "zip", sidecar,
                   [wellformed |-> TRUE, children |-> q], NoDocInfo) :
                q \in InjSeqsUpTo(elements, MaxTags)}
        \cup {File(named \o Ext.cbz, "zip", sidecar,
                   [wellformed |-> FALSE, children |-> q], NoDocInfo) :
                q \in InjSeqsUpTo(elements, 1)}
        \cup {File(<<97>> \o Ext.pdf, "pdf", <<>>, PlainDoc, i) : i \in infos}
        \cup {File(named \o Ext.cbz, "junk", <<>>, PlainDoc, NoDocInfo),
              File(named \o Ext.cbz, "rar", sidecar, PlainDoc, NoDocInfo),
              File(named \o Ext.cbz, "zip", <<N.IMG001_PNG>>, PlainDoc, NoDocInfo),
              File(named \o Ext.cbr, "rar", <<N.cover_gif, N.hidden_jpeg>>, PlainDoc,
                   NoDocInfo),
              File(named \o Ext.cb7, "7z", <<N.cover_gif>>, PlainDoc, NoDocInfo)}

\* The metadata steps run on every file of MetaFiles, on a host that has
\* every library; scan_file is the caller for the files named by tokens.
MetadataInit ==
    /\ ScanInit
    /\ FirstCall
    /\ db = TRUE
    /\ xfile \in MetaFiles
    /\ xenv = [rarfile |-> TRUE, p7zip |-> TRUE]
    /\ xentry \in {"scan_file", "extract_metadata"}
    /\ xentry = "scan_file" => xfile.entries = <<>>
    /\ xpc = "call"
    /\ xopened = <<>>
    /\ xmeta = NoMeta
    /\ xresult = NoResult

MetadataSpec == MetadataInit /\ [][ExtractNext]_vars

\* What extract_metadata has returned: the dict, or {} after an exception.
Returned == IF xresult = MetadataResult THEN xmeta.md ELSE EmptyDict

\* The files of a batch one scanner is run over: an archive of each family
\* with a sidecar and a page, a PDF, a .cbz and a .cbr that are no archives,
\* and a .cbt.
BatchFiles ==
    LET listing == <<N.ComicInfo_xml, N.img002_jpg>>
        doc == [wellformed |-> TRUE, children |-> <<Element("Title", <<84>>)>>]
    IN  {File(<<97>> \o Ext.cbz, "zip", listing, doc, NoDocInfo),
         File(<<97>> \o Ext.cbr, "rar", listing, doc, NoDocInfo),
         File(<<97>> \o Ext.cb7, "7z", listing, doc, NoDocInfo),
         File(<<97>> \o Ext.pdf, "pdf", <<>>, PlainDoc, DocInfo(<<84>>, <<>>, <<>>, <<>>)),
         File(<<97>> \o Ext.cbz, "junk", <<>>, PlainDoc, NoDocInfo),
         File(<<97>> \o Ext.cbr, "junk", <<>>, PlainDoc, NoDocInfo),
         File(<<97>> \o Ext.cbt, "zip", listing, doc, NoDocInfo)}

\* The file under extraction is the first file of the batch once more: it
\* has not changed, so every step reads from it what it read before.
Replay == xcalls > 1 /\ xfile = xfirst.file

B_Format ==
    /\ xpc = "format"
    /\ \E bad \in IF Replay THEN {xdraw.sidecar} ELSE BadSets(xfile) :
          /\ Format(bad)
          /\ xdraw' = IF xcalls = 1 THEN [xdraw EXCEPT !.sidecar = bad] ELSE xdraw
    /\ UNCHANGED <<xfirst, xcalls>>

B_Cover ==
    /\ xpc = "cover"
    /\ \E o \in IF Replay
                    THEN {[bad |-> xdraw.cover, tool |-> xdraw.tool, data |-> xdraw.data]}
                    ELSE CoverOutcomes(xfile, xenv) :
          /\ Cover(o.bad, o.tool, o.data)
          /\ xdraw' = IF xcalls = 1
                         THEN [xdraw EXCEPT !.cover = o.bad, !.tool = o.tool,
                                            !.data = o.data]
                         ELSE xdraw
    /\ UNCHANGED <<xfirst, xcalls>>

\* The caller goes on to the next file of the batch with the same scanner:
\* add_comic_from_file and _scan_directory keep nothing of a call but what
\* it returned, and the scanner keeps its attributes.
B_NextFile ==
    /\ xpc = "done"
    /\ xcalls < MaxCalls
    /\ xfirst' = IF xcalls = 1
                    THEN [file |-> xfile, result |-> xresult, md |-> Returned]
                    ELSE xfirst
    /\ xfile' \in BatchFiles
    /\ xpc' = "call"
    /\ xopened' = <<>>
    /\ xmeta' = [NoMeta EXCEPT !.held = xmeta.held]
    /\ xresult' = NoResult
    /\ xcalls' = xcalls + 1
    /\ UNCHANGED <<xenv, xentry, comic_archive, xdraw, scanVars, dbVars>>

BatchInit ==
    /\ ScanInit
    /\ db = TRUE
    /\ FirstCall
    /\ xfile \in BatchFiles
    /\ xenv \in XEnvs
    /\ xentry \in {"scan_file", "extract_metadata"}
    /\ xpc = "call"
    /\ xopened = <<>>
    /\ xmeta = NoMeta
    /\ xresult = NoResult

BatchNext ==
    \/ X_ScanFile
    \/ X_ExtractMetadata
    \/ X_Stat
    \/ B_Format
    \/ B_Cover
    \/ X_Return
    \/ B_NextFile

\* Up to MaxCalls extractions in a row by one scanner on one host.
BatchSpec == BatchInit /\ [][BatchNext]_vars

----------------------------------------------------------------------------
\* The scan session's state, read off the worker: Running from the start of
\* the thread until _update_ui_after_scan has run, then the outcome of the
\* path by which the worker left the try block.
Terminal == {"Completed", "Stopped", "Failed"}

SessionState ==
    IF pc = "idle" THEN "Idle"
    ELSE IF pc # "done" THEN "Running"
    ELSE IF exitPath = "break" THEN "Stopped"
    ELSE IF exitPath = "exception" THEN "Failed"
    ELSE "Completed"

\* What _update_ui_after_scan shows for a scan of total files that ran to the
\* end of its list with n files imported.
CompletedReport(total, n) ==
    UiReport("exhausted", UiArgs("exhausted", total, n)[1],
             UiArgs("exhausted", total, n)[2])

StoredCount == Cardinality({k \in 1..Len(results) : results[k].outcome = "stored"})

----------------------------------------------------------------------------
\* Claims about the scan session.

\* C1: when a stop takes effect after N of M files (N < M), exactly those N
\* files have been handed to storage and none of the remaining M-N, and what
\* the session reports tells a stopped scan from a completed one (and from a
\* failed one): it reports N processed files, not the report of a scan that
\* ran through all M.
C1_StoppedScanIsReportedAsStopped ==
    (pc = "done" /\ db /\ exitPath = "break" /\ Len(results) < Len(files)) =>
        /\ handed = SubSeq(files, 1, Len(results))
        /\ reported.dialog # "error_scan"
        /\ reported.processed = Len(results)
        /\ reported # CompletedReport(Len(files), imported)

\* The part of C1 about the records: a stopped session has handed over
\* exactly the files before the break.
C1_HandedExactlyTheProcessedFiles ==
    (pc = "done" /\ db /\ exitPath = "break") =>
        /\ handed = SubSeq(files, 1, Len(results))
        /\ Len(handed) = idx - 1

\* C2: an exception raised while extracting or storing file k does not end
\* the session: the worker goes back to the head of the loop for file k+1,
\* file k is not counted as imported, the committed rows are left as they
\* were; and a session that leaves the loop at the end of its list (no stop,
\* no failure of the UI) has attempted every file of the list and reports as
\* imported exactly the files that were stored.
C2_FileErrorDoesNotEndSession ==
    /\ [][(Len(results') = Len(results) + 1
             /\ results'[Len(results')].outcome = "raised")
          => /\ pc' = "check"
             /\ idx' = idx + 1
             /\ imported' = imported
             /\ comics' = comics
             /\ exitPath' = "none"
             /\ reported' = reported
             /\ SubSeq(results', 1, Len(results)) = results]_vars
    /\ [](exitPath = "exhausted" =>
            /\ Len(results) = Len(files)
            /\ \A k \in 1..Len(files) : results[k].file = files[k]
            /\ imported = StoredCount
            /\ (pc = "done" => reported.imported = StoredCount))

C2_Witness ==
    /\ pc = "done" /\ exitPath = "exhausted" /\ Len(files) = 2
    /\ results[1].outcome = "raised"
    /\ results[2].outcome = "stored"

C5_EnumerationFailureIsFailed ==
    pc = "done" =>
        /\ listingRaised => (SessionState = "Failed"
                               /\ reported.dialog = "error_scan")
        /\ SessionState = "Failed" => listingRaised

\* C6 as stated: progress (i, total, name) is reported once per processed
\* file, the report for file i after file i has been processed, the indices
\* 1, 2, ... with total = M.
C6_ReportAfterFileProcessed ==
    /\ \A k \in 1..Len(progress_log) :
          /\ progress_log[k] =
                [kind |-> "processing", a |-> k, b |-> Len(files), c |-> files[k]]
          /\ k <= Len(results)
    /\ Len(progress_log) = Len(results)

\* C6 as amended: the report for file i is made before file i is processed,
\* when files 1..i-1 have been processed: every file the loop body ran for
\* has its report, at most the last reported file is still unprocessed, and
\* the k-th report is (k, M, name of the k-th file).
C6_ReportBeforeFileProcessed ==
    /\ \A k \in 1..Len(progress_log) :
          progress_log[k] =
             [kind |-> "processing", a |-> k, b |-> Len(files), c |-> files[k]]
    /\ Len(results) <= Len(progress_log)
    /\ Len(progress_log) <= Len(results) + 1
    /\ pc \in {"scan_file", "insert"} =>
          /\ Len(progress_log) = Len(results) + 1
          /\ progress_var = progress_log[Len(progress_log)]
          /\ progress_var.a = idx

C6_Witness ==
    /\ pc = "scan_file" /\ Len(progress_log) = 2 /\ Len(results) = 1
    /\ files = <<2, 1>>

----------------------------------------------------------------------------
\* Claims about one extraction.

\* An extraction that has returned to its caller.
XDone == xpc = "done"

\* C7: a zero-byte file with a supported extension ends in the empty-file
\* error and no backend (zip, rar, 7z, pdf) is ever opened on it, whether the
\* extraction was entered through scan_file or through extract_metadata.
C7_EmptyFileTouchesNoBackend ==
    (XDone /\ xfile.content = "empty" /\ is_comic_file(xfile.name, xenv))
        => (xresult = ErrorResult("empty_file") /\ xopened = <<>>)

\* C8: a file with the ZIP signature and the extension .cbr is read as Zip in
\* the sidecar step and in the cover step, and the Rar backend is never opened
\* on it.
C8_ZipSignatureCbrReadAsZip ==
    (/\ XDone
     /\ xresult = MetadataResult
     /\ xfile.content = "zip"
     /\ SplitExt(LowerStr(xfile.name)) = Ext.cbr)
        => /\ xmeta.sidecar.backend = "Zip"
           /\ xmeta.cover.backend = "Zip"
           /\ \A k \in 1..Len(xopened) : xopened[k].backend # "Rar"

\* C9: within one extraction the backend that reads the sidecar is the backend
\* that reads the cover; for a .cbz file with RAR bytes both are Rar.
C9_BackendSelectedOnce ==
    (XDone /\ xresult = MetadataResult)
        => /\ xmeta.sidecar.backend = xmeta.cover.backend
           /\ (SplitExt(LowerStr(xfile.name)) = Ext.cbz /\ xfile.content = "rar")
                 => (xmeta.sidecar.backend = "Rar" /\ xmeta.cover.backend = "Rar")

\* C10: for Zip, Rar and SevenZip and every listing order of readable
\* entries, the entry chosen as cover is the smallest name among the entries
\* with an image extension whose base name does not start with '.', and none
\* is chosen when there is no such entry.
C10_CoverIsSmallestVisibleImage ==
    (/\ XDone
     /\ xresult = MetadataResult
     /\ xmeta.readable
     /\ xmeta.cover.backend \in {"Zip", "Rar", "SevenZip"}
     /\ xmeta.cover.calls # <<>>
     /\ Opens(xmeta.cover.backend, xfile.content))
        => LET visible == {e \in Range(xfile.entries) :
                              /\ SplitExt(LowerStr(e)) \in image_extensions
                              /\ ~StartsWith(Basename(e), 46)}
           IN  IF visible = {}
                  THEN xmeta.cover.entry = <<>>
                  ELSE /\ xmeta.cover.entry \in visible
                       /\ \A o \in visible \ {xmeta.cover.entry} :
                             LexLess(xmeta.cover.entry, o)

----------------------------------------------------------------------------
\* The dict as _parse_filename leaves it, before the format-specific step.
Seed == parse_filename(DefaultMetadata(xfile.name, SizeOf(xfile)))

\* The sidecar of the file has been read and parsed.
SidecarParsed ==
    /\ xmeta.sidecar.used
    /\ xmeta.sidecar.backend # "Pdf"
    /\ xfile.xml.wellformed

\* C11: in the record extract_metadata returns for an archive the filename
\* heuristic has run before the sidecar parser, so for every tag of
\* tag_mapping: when the first element of the tag has a text the field
\* accepts (any text, an integer for Year), the record holds that text, as
\* str or as the number or truth value it denotes; otherwise, and for every
\* file whose sidecar was not read, the field is what the filename heuristic
\* left.
C11_SidecarOverridesFilename ==
    (XDone /\ xresult = MetadataResult /\ xmeta.sidecar.backend # "Pdf")
        => LET seed == Seed
               parsed == SidecarParsed
               children == xfile.xml.children
           IN  /\ xmeta.built
               /\ \A tag \in DOMAIN tag_mapping :
                     LET f == tag_mapping[tag]
                         elems == Filter(children, {e \in Range(children) : e.tag = tag})
                         text == IF elems = <<>> THEN <<>> ELSE elems[1].text
                         v == Get(xmeta.md, f)
                     IN  IF parsed /\ text # <<>> /\ (tag = "Year" => IntOk(text))
                            THEN \/ v = [t |-> "str", v |-> text]
                                 \/ v.t = "int" /\ IntOk(text) /\ v.v = <<IntOf(text)>>
                                 \/ v.t = "float" /\ v.v = Strip(text)
                                 \/ v.t = "bool"
                            ELSE v = Get(seed, f)

\* A sidecar with <Year>2012</Year> and no Title, in 'A 007 (1998).cbz': the
\* record returned has the year of the sidecar and the title of the name.
C11_Witness ==
    /\ XDone
    /\ xresult = MetadataResult
    /\ SidecarParsed
    /\ xfile.xml.children = <<Element("Year", <<50, 48, 49, 50>>)>>
    /\ Seed["year"] = IntV(1998)
    /\ xmeta.md["year"] = IntV(2012)
    /\ xmeta.md["title"] = StrV(<<65>>)

\* C12: in every record the extractor returns, cover_image and
\* cover_image_type are both there (bytes and a type) or both not there,
\* whether the cover was decoded, kept as read, empty, or not to be had.
C12_CoverAndTypeTogether ==
    XDone
        => LET r == Returned IN
           /\ ("cover_image" \in DOMAIN r) <=> ("cover_image_type" \in DOMAIN r)
           /\ "cover_image" \in DOMAIN r
                 => r["cover_image"].t = "bytes" /\ r["cover_image_type"].t = "str"

\* The entry chosen as cover is no image Pillow can decode: the record has
\* its bytes as read and the type of its extension.
C12_Witness ==
    /\ XDone
    /\ xresult = MetadataResult
    /\ xmeta.cover.entry = N.img002_jpg
    /\ Get(xmeta.md, "cover_image") = Original
    /\ Get(xmeta.md, "cover_image_type") = StrV(<<105, 109, 97, 103, 101, 47, 106, 112, 101, 103>>)

\* C13: in every record the extractor returns, year, if set, is within
\* 1900..2100, whether the file name, the Year tag or the CreationDate of the
\* PDF set it.
C13_YearInRange ==
    XDone
        => LET r == Returned IN
           ("year" \in DOMAIN r /\ r["year"] # NoneV)
              => /\ r["year"].t = "int"
                 /\ r["year"].v[1] >= 1900
                 /\ r["year"].v[1] <= 2100

\* C14: every value extract_metadata returns to its caller has a file_path
\* that is a non-empty absolute path, also when a step of the extraction
\* raised.
C14_ReturnedFilePathAbsolute ==
    (xpc \in {"return", "done"} /\ xentry = "extract_metadata")
        => LET r == Returned IN
           /\ "file_path" \in DOMAIN r
           /\ r["file_path"].t = "str"
           /\ r["file_path"].v # <<>>
           /\ StartsWith(r["file_path"].v, 47)

\* C15: a call of extract_metadata fails only for a missing or zero-length
\* file; for every other file, whatever the sidecar or PDF-info step and the
\* cover step met, both steps have run and the record returned has the
\* fields the earlier steps produced: path, size, and the fields read from
\* the name wherever the sidecar or the PDF info did not replace them.
C15_StepsFaultTolerant ==
    (XDone /\ xentry = "extract_metadata")
        => IF xfile.content \in {"missing", "empty"}
              THEN xresult # MetadataResult
              ELSE /\ xresult = MetadataResult
                   /\ xmeta.sidecar.raised = FALSE
                   /\ LET r == Returned
                           seed == Seed
                       IN  /\ DOMAIN seed \subseteq DOMAIN r
                           /\ r["file_path"] = seed["file_path"]
                           /\ r["file_size"] = seed["file_size"]
                           /\ ~xmeta.sidecar.used => \A f \in DOMAIN seed : r[f] = seed[f]

\* C16: for an existing, non-empty .cbr on a host without rarfile, and a
\* .cb7 or .7z on a host without py7zr, scan_file and extract_metadata return
\* a record, never an error: it has exactly the fields read from the name,
\* nothing of a sidecar and no cover.
C16_MissingDependencyDegrades ==
    LET ext == SplitExt(LowerStr(xfile.name)) IN
    (/\ XDone
     /\ xfile.content \notin {"missing", "empty"}
     /\ \/ ext = Ext.cbr /\ ~xenv.rarfile
        \/ ext \in {Ext.cb7, Ext.z7} /\ ~xenv.p7zip)
        => /\ xresult = MetadataResult
           /\ Returned = Seed

\* C17: when the ComicInfo.xml read from the archive is not well-formed, the
\* sidecar step raises nothing and leaves every field as the filename
\* heuristic left it, and the extraction goes on with the cover step, which
\* adds nothing but the cover.
C17_MalformedSidecarIgnored ==
    (/\ xmeta.sidecar.used
     /\ xmeta.sidecar.backend # "Pdf"
     /\ ~xfile.xml.wellformed)
        => LET seed == Seed IN
           /\ ~xmeta.sidecar.raised
           /\ xpc = "cover" => xmeta.md = seed
           /\ xpc \in {"return", "done"} => xresult = MetadataResult
           /\ \A f \in DOMAIN seed : xmeta.md[f] = seed[f]
           /\ DOMAIN xmeta.md \subseteq DOMAIN seed \cup {"cover_image", "cover_image_type"}

\* A ComicInfo.xml cut short after <Title>T</Title>: the record returned has
\* the title of the file name, and the cover.
C17_Witness ==
    /\ XDone
    /\ xresult = MetadataResult
    /\ xmeta.sidecar.used
    /\ xfile.xml = [wellformed |-> FALSE, children |-> <<Element("Title", <<84>>)>>]
    /\ xmeta.md["title"] = StrV(<<65>>)
    /\ Get(xmeta.md, "cover_image") = Thumbnail

\* C18: when the text of Volume, Year, PageCount, AlternateCount or Count in
\* a parsed ComicInfo.xml is no integer, the field is dropped: the record
\* keeps for it what it had before the sidecar was read.
C18_NonIntegerFieldDropped ==
    (XDone /\ xresult = MetadataResult /\ SidecarParsed)
        => LET seed == Seed
               children == xfile.xml.children
           IN  \A tag \in {"Volume", "Year", "PageCount", "AlternateCount", "Count"} :
                  LET elems == Filter(children, {e \in Range(children) : e.tag = tag})
                  IN  (elems # <<>> /\ elems[1].text # <<>> /\ ~IntOk(elems[1].text))
                         => Get(xmeta.md, tag_mapping[tag]) = Get(seed, tag_mapping[tag])

\* C19: after a ComicInfo.xml is parsed, authors has the entry 'Name (role)'
\* for every element of a creator tag that has text, and no empty string;
\* <Year>2012</Year><Writer>Jane Doe</Writer> gives year 2012 and the one
\* author 'Jane Doe (writer)'.
C19_EveryCreatorListed ==
    (XDone /\ xresult = MetadataResult /\ SidecarParsed)
        => LET children == xfile.xml.children
               authors == xmeta.md["authors"].v
           IN  /\ \A k \in 1..Len(children) :
                     \A c \in 1..Len(CreatorTags) :
                        (children[k].tag = CreatorTags[c].tag /\ children[k].text # <<>>)
                           => \E a \in 1..Len(authors) :
                                 authors[a] = children[k].text \o <<32, 40>>
                                                 \o CreatorTags[c].role \o <<41>>
               /\ \A a \in 1..Len(authors) : authors[a] # <<>>
               /\ children = <<Element("Year", <<50, 48, 49, 50>>),
                               Element("Writer", <<74, 97, 110, 101, 32, 68, 111, 101>>)>>
                     => /\ xmeta.md["year"] = IntV(2012)
                        /\ authors = << <<74, 97, 110, 101, 32, 68, 111, 101, 32, 40,
                                          119, 114, 105, 116, 101, 114, 41>> >>

\* C20: for a file without sidecar, the record has what the filename
\* heuristic reads from the base name without extension: a year exactly when
\* the name has four digits in parentheses, then the number of the first of
\* them; an issue number that is a run of digits; series and title equal and
\* trimmed. The year is taken out before the issue number is looked for, so
\* '#12(3000).cbz' has issue number '12' and an empty series, and
\* 'Amazing Tales - 007 (1998).cbz' gives year 1998, issue number '007' and
\* series 'Amazing Tales -'.
C20_FilenameHeuristic ==
    (XDone /\ xresult = MetadataResult /\ ~xmeta.sidecar.used)
        => LET md == xmeta.md
               n == xfile.name
               stem == SubSeq(n, 1, Len(n) - 4)
               years == {k \in 1..(Len(stem) - 5) :
                            /\ stem[k] = 40 /\ stem[k + 5] = 41
                            /\ \A j \in (k + 1)..(k + 4) : stem[j] \in 48..57}
           IN  /\ md["series"] = md["title"]
               /\ md["series"].t = "str"
               /\ md["series"].v # <<>>
                     => md["series"].v[1] # 32 /\ md["series"].v[Len(md["series"].v)] # 32
               /\ (md["year"] # NoneV) <=> (years # {})
               /\ \A k \in years :
                     (\A j \in years : k <= j)
                        => md["year"] = IntV(1000 * (stem[k + 1] - 48) + 100 * (stem[k + 2] - 48)
                                              + 10 * (stem[k + 3] - 48) + (stem[k + 4] - 48))
               /\ md["issue_number"] # NoneV
                     => /\ md["issue_number"].v # <<>>
                        /\ \A j \in 1..Len(md["issue_number"].v) :
                              md["issue_number"].v[j] \in 48..57
               /\ stem = <<35, 49, 50, 40, 51, 48, 48, 48, 41>>
                     => md["issue_number"] = StrV(<<49, 50>>) /\ md["series"] = StrV(<<>>)
               /\ stem = <<65, 109, 97, 122, 105, 110, 103, 32, 84, 97, 108, 101, 115, 32,
                           45, 32, 48, 48, 55, 32, 40, 49, 57, 57, 56, 41>>
                     => /\ md["year"] = IntV(1998)
                        /\ md["issue_number"] = StrV(<<48, 48, 55>>)
                        /\ md["series"] = StrV(<<65, 109, 97, 122, 105, 110, 103, 32, 84, 97,
                                                 108, 101, 115, 32, 45>>)

\* extract_metadata has returned the record of
\* 'Amazing Tales - 007 (1998).cbz'.
C20_Witness ==
    /\ XDone
    /\ xresult = MetadataResult
    /\ xfile.name = <<65, 109, 97, 122, 105, 110, 103, 32, 84, 97, 108, 101, 115, 32, 45,
                      32, 48, 48, 55, 32, 40, 49, 57, 57, 56, 41, 46, 99, 98, 122>>
    /\ xmeta.md["year"] = IntV(1998)
    /\ xmeta.md["issue_number"] = StrV(<<48, 48, 55>>)
    /\ xmeta.md["title"] = StrV(<<65, 109, 97, 122, 105, 110, 103, 32, 84, 97, 108, 101,
                                  115, 32, 45>>)

----------------------------------------------------------------------------
\* Claims about the extractor across files.

C22_CorruptedRarHasNoCover ==
    (/\ XDone
     /\ xenv.rarfile
     /\ SplitExt(LowerStr(xfile.name)) = Ext.cbr
     /\ xfile.content \in {"rar", "junk"}
     /\ xmeta.built
     /\ \/ xfile.content = "junk"
        \/ ~xmeta.readable
        \/ xmeta.sidecar.entry # <<>> /\ ~xmeta.sidecar.used)
        => /\ xresult = MetadataResult
           /\ "cover_image" \notin DOMAIN Returned
           /\ xmeta.sidecar.used => Returned = parse_comic_info_xml(xfile.xml, Seed)
           /\ xfile.content = "junk" => Returned = Seed

\* C23: when the cover step of an archive has read the entry it selected
\* and the entry is not empty, the record has a cover, one of two: bytes
\* that decode come back as the re-encoded JPEG with type image/jpeg; bytes
\* that do not decode come back as they were read, with the type of the
\* entry's extension.  A failed decode never leaves the record without
\* cover.
C23_DecodedOrRawCover ==
    (/\ XDone
     /\ xresult = MetadataResult
     /\ xmeta.cover.backend \in {"Zip", "Rar", "SevenZip"}
     /\ xmeta.cover.used
     /\ xmeta.data # "empty")
        => LET image == Get(Returned, "cover_image")
               type == Get(Returned, "cover_image_type")
           IN  IF xmeta.data = "image"
                  THEN /\ image = Thumbnail
                       /\ type = StrV(<<105, 109, 97, 103, 101, 47, 106, 112, 101, 103>>)
                  ELSE /\ image = Original
                       /\ type = StrV(MimeOf(xmeta.cover.entry))

\* cover.gif of a 7z archive holds bytes that are no image: the record has
\* them as image/gif.
C23_Witness ==
    /\ XDone
    /\ xmeta.cover.backend = "SevenZip"
    /\ xmeta.cover.entry = N.cover_gif
    /\ xmeta.data = "garbled"
    /\ Get(Returned, "cover_image") = Original
    /\ Get(Returned, "cover_image_type") = StrV(<<105, 109, 97, 103, 101, 47, 103, 105, 102>>)

\* C26: on a host with every library, each of .cbz .zip .cbr .rar .cb7 .7z
\* .pdf is accepted as a comic file, and a file of that extension holding
\* the bytes of its own format has its sidecar (or document info) and its
\* cover read by the backend of the extension: Zip, Rar, SevenZip, Pdf; and
\* every extension that is accepted as a comic file has a backend in both
\* steps.
C26_ExtensionsRouted ==
    LET ext == SplitExt(LowerStr(xfile.name))
        family == IF ext \in {Ext.cbz, <<46, 122, 105, 112>>} THEN "Zip"
                  ELSE IF ext \in {Ext.cbr, Ext.rar} THEN "Rar"
                  ELSE IF ext \in {Ext.cb7, Ext.z7} THEN "SevenZip"
                  ELSE IF ext = Ext.pdf THEN "Pdf"
                  ELSE "none"
    IN  (xenv.rarfile /\ xenv.p7zip)
           => /\ family # "none" => is_comic_file(xfile.name, xenv)
              /\ (XDone /\ xresult = MetadataResult /\ family # "none"
                        /\ Opens(family, xfile.content))
                    => (xmeta.sidecar.backend = family /\ xmeta.cover.backend = family)
              /\ (XDone /\ xresult = MetadataResult
                        /\ is_comic_file(xfile.name, xenv))
                    => (xmeta.sidecar.backend # "none" /\ xmeta.cover.backend # "none")

----------------------------------------------------------------------------
\* Claims about storage and about the threads of a scan session.

\* C24: storage is insert-or-update keyed on file_path.  Whenever the
\* worker hands a file whose extraction succeeded to storage, the file ends
\* up stored, also when a row with that file_path is already there from an
\* earlier scan of the same directory; the hand-over never fails and is
\* never skipped, and no row is lost by it.
C24_InsertOrUpdate ==
    [][(pc = "insert" /\ pc' # "insert")
          => /\ results' = Append(results, [file |-> CurFile, outcome |-> "stored"])
             /\ comics' = comics \cup {CurFile}]_vars

C28_OneWorkerAtATime ==
    /\ [](pc \in {"enumerate", "check", "progress", "scan_file", "insert"}
             => start_btn = "disabled")
    /\ [][nsessions' # nsessions
             => pc \notin {"enumerate", "check", "progress", "scan_file", "insert"}]_vars

\* A second worker has been launched, after the first had stored a file and
\* finished, and is in its loop.
C28_Witness ==
    /\ nsessions = 2
    /\ pc = "scan_file"
    /\ comics # {}
    /\ start_btn = "disabled"

\* C29: all statements of one add_comic_from_file call run on one
\* connection: the INSERT into comics, the statements for an author and the
\* final commit, whatever queries the UI thread runs meanwhile.
C29_OneConnectionPerCall ==
    Cardinality(stmt_conns) <= 1

\* C30: once cleanup has run (the panel's db is None) no comic record is
\* committed any more, and the worker, when it next reads the stop flag,
\* starts no further file.
C30_NothingCommittedAfterCleanup ==
    /\ [][~db => comics' = comics]_vars
    /\ [][(~db /\ stop_scan /\ pc = "check") => pc' \in {"check", "finish"}]_vars
====
